---- MODULE Spec2Model ----
(***************************************************************************)
(* Verification model of the tipburn quantification pipeline:             *)
(*   segment.merge_masks, segment.shw_segmentation,                       *)
(*   utils.crop_region, utils.centre_primary_label,                       *)
(*   utils.canny_central_ob, fluor_cropper.rough_crop / overlap_crop /    *)
(*   worker and the fluor_cropper_nmp variants.                           *)
(*                                                                         *)
(* Grids are functions over (0..h-1) \X (0..w-1), indexed <<row, col>>    *)
(* like numpy arrays; a grid value carries its shape.  Boolean numpy      *)
(* arrays are kept as 0/1 grids with a dtype tag.                         *)
(***************************************************************************)
EXTENDS Integers, Sequences, FiniteSets, TLC

VARIABLES mm,   \* one call of segment.merge_masks
          rc,   \* one call of fluor_cropper.rough_crop
          wk,   \* one call of worker (fluor_cropper / fluor_cropper_nmp)
          sg,   \* one call of segment.shw_segmentation
          co,   \* one call of utils.canny_central_ob
          ut,   \* one call of utils.centre_primary_label / increase_contrast
          bt    \* one batch of a segmentation script's pool

vars == <<mm, rc, wk, sg, co, ut, bt>>

Idle == [pc |-> "idle"]

(***************************************************************************)
(* Bounds of the model                                                     *)
(***************************************************************************)
NPix == 3        \* pixels of the masks given to merge_masks
TargetCells == 9 \* most pixels of the target mask of rough_crop
RefCells == 4    \* most pixels of the reference mask of rough_crop
MaxStep == 2     \* largest step of the coarse search
MaxRgbs == 2     \* most RGB images paired with one fluorescence frame
ShiftGrain == 375 \* spacing of the sampled phase-correlation shifts
SobPix == 5      \* pixels of the image given to shw_segmentation
CanPix == 4      \* pixels of the image given to canny_central_ob

(***************************************************************************)
(* Generic helpers                                                         *)
(***************************************************************************)
Max(S) == CHOOSE x \in S : \A y \in S : y <= x
Min(S) == CHOOSE x \in S : \A y \in S : x <= y

Grid(h, w, px) == [shape |-> <<h, w>>, px |-> px]
Idx(h, w) == (0 .. h - 1) \X (0 .. w - 1)
BinGrids(h, w) == {Grid(h, w, f) : f \in [Idx(h, w) -> {0, 1}]}

\* range(lo, hi + 1, step) as the ascending sequence of its values
RECURSIVE PyRange(_, _, _)
PyRange(lo, hi, step) ==
    IF lo > hi THEN <<>> ELSE <<lo>> \o PyRange(lo + step, hi, step)

\* a[start:stop] on an axis of length n: the first index and the length
SliceStart(start, n) ==
    LET s == IF start < 0 THEN start + n ELSE start
    IN  IF s < 0 THEN 0 ELSE IF s > n THEN n ELSE s
SliceLen(start, stop, n) ==
    LET s == SliceStart(start, n)
        e == SliceStart(stop, n)
    IN  IF e > s THEN e - s ELSE 0

(***************************************************************************)
(* segment.merge_masks                                                     *)
(***************************************************************************)
\* a value stored into an array of the given dtype
Cast(dtype, v) == IF dtype = "bool" THEN (IF v # 0 THEN 1 ELSE 0) ELSE v

substep(bg_mask, pheno_mask) ==
    [p \in DOMAIN bg_mask |-> bg_mask[p] + pheno_mask[p]]

merge_masks_nozero(bg_mask, pheno_mask, dtype) ==
    [p \in DOMAIN bg_mask |->
        IF substep(bg_mask, pheno_mask)[p] = 2 THEN Cast(dtype, 1)
        ELSE IF substep(bg_mask, pheno_mask)[p] = 1 THEN Cast(dtype, 2)
        ELSE 0]

\* comb_mask = zeros_like(bg_mask); [substep == 1] = 2; [substep == 2] = 1;
\* [bg_mask == 0] = 0, the later assignment winning
merge_masks(bg_mask, pheno_mask, dtype) ==
    [p \in DOMAIN bg_mask |->
        IF bg_mask[p] = 0 THEN 0
        ELSE IF substep(bg_mask, pheno_mask)[p] = 2 THEN Cast(dtype, 1)
        ELSE IF substep(bg_mask, pheno_mask)[p] = 1 THEN Cast(dtype, 2)
        ELSE 0]

MergeInputs == [1 .. NPix -> {0, 1}]

InitMerge ==
    /\ mm \in [pc : {"call"}, bg_mask : MergeInputs, pheno_mask : MergeInputs,
               dtype : {"int", "bool"}, comb_mask : {<<>>}]
    /\ rc = Idle
    /\ wk = Idle
    /\ sg = Idle
    /\ co = Idle
    /\ ut = Idle
    /\ bt = Idle

MergeMasks ==
    /\ mm.pc = "call"
    /\ mm' = [mm EXCEPT !.pc = "done",
                        !.comb_mask = merge_masks(mm.bg_mask, mm.pheno_mask,
                                                  mm.dtype)]
    /\ UNCHANGED <<rc, wk, sg, co, ut, bt>>

NextMerge == MergeMasks

SpecMerge == InitMerge /\ [][NextMerge]_vars

(***************************************************************************)
(* utils.crop_region                                                       *)
(***************************************************************************)
\* image[centre[1] - shape[0] // 2 : centre[1] + shape[0] // 2,
\*       centre[0] - shape[1] // 2 : centre[0] + shape[1] // 2]
\* centre is <<x, y>> = <<column, row>>, shape is <<height, width>>
CropWindow(imshape, centre, shape) ==
    LET r0 == centre[2] - shape[1] \div 2
        r1 == centre[2] + shape[1] \div 2
        c0 == centre[1] - shape[2] \div 2
        c1 == centre[1] + shape[2] \div 2
    IN  [rs |-> SliceStart(r0, imshape[1]), cs |-> SliceStart(c0, imshape[2]),
         rl |-> SliceLen(r0, r1, imshape[1]),
         cl |-> SliceLen(c0, c1, imshape[2])]

\* the shape of crop_region's result
CropShape(imshape, centre, shape) ==
    <<CropWindow(imshape, centre, shape).rl,
      CropWindow(imshape, centre, shape).cl>>

crop_region(image, centre, shape) ==
    LET win == CropWindow(image.shape, centre, shape)
    IN  Grid(win.rl, win.cl,
             [p \in Idx(win.rl, win.cl) |->
                 image.px[<<win.rs + p[1], win.cs + p[2]>>]])

(***************************************************************************)
(* numpy: (crop == mask_a).sum()                                           *)
(***************************************************************************)
NoBroadcast == -1
BroadcastDim(x, y) ==
    IF x = y THEN x ELSE IF x = 1 THEN y ELSE IF y = 1 THEN x ELSE NoBroadcast

At(g, p) == g.px[<<IF g.shape[1] = 1 THEN 0 ELSE p[1],
                   IF g.shape[2] = 1 THEN 0 ELSE p[2]>>]

EqSumNe(crop, mask_a) ==
    LET h == BroadcastDim(crop.shape[1], mask_a.shape[1])
        w == BroadcastDim(crop.shape[2], mask_a.shape[2])
    IN  IF h = NoBroadcast \/ w = NoBroadcast THEN NoBroadcast
        ELSE Cardinality({p \in Idx(h, w) : At(crop, p) # At(mask_a, p)})

\* the number of equal elements, or NoBroadcast when the shapes do not
\* broadcast and the comparison raises
EqSum(crop, mask_a) ==
    LET h == BroadcastDim(crop.shape[1], mask_a.shape[1])
        w == BroadcastDim(crop.shape[2], mask_a.shape[2])
    IN  IF h = NoBroadcast \/ w = NoBroadcast THEN NoBroadcast
        ELSE Cardinality({p \in Idx(h, w) : At(crop, p) = At(mask_a, p)})

(***************************************************************************)
(* fluor_cropper.rough_crop and fluor_cropper_nmp.rough_crop               *)
(***************************************************************************)
min_r(mask_a) == mask_a.shape[1] \div 2
max_r(mask_a, mask_b) == mask_b.shape[1] - mask_a.shape[1] \div 2
min_c(mask_a) == mask_a.shape[2] \div 2
max_c(mask_a, mask_b) == mask_b.shape[2] - mask_a.shape[2] \div 2

RECURSIVE Flatten(_)
Flatten(ss) == IF ss = <<>> THEN <<>> ELSE Head(ss) \o Flatten(Tail(ss))

VisitOrderExclusive(mask_a, mask_b, step) ==
    LET rows == PyRange(min_r(mask_a), max_r(mask_a, mask_b) - 1, step)
        cols == PyRange(min_c(mask_a), max_c(mask_a, mask_b) - 1, step)
    IN  Flatten([i \in 1 .. Len(rows) |->
                    [j \in 1 .. Len(cols) |-> <<cols[j], rows[i]>>]])

\* the anchors <<col, row>> in the order the two loops visit them
VisitOrder(mask_a, mask_b, step) ==
    LET rows == PyRange(min_r(mask_a), max_r(mask_a, mask_b), step)
        cols == PyRange(min_c(mask_a), max_c(mask_a, mask_b), step)
    IN  Flatten([i \in 1 .. Len(rows) |->
                    [j \in 1 .. Len(cols) |-> <<cols[j], rows[i]>>]])

Overlap(mask_a, mask_b, anchor) ==
    EqSum(crop_region(mask_b, anchor, mask_a.shape), mask_a)

\* the overlap computed at each visited anchor, in visiting order
Overlaps(mask_a, mask_b, vis) ==
    [i \in 1 .. Len(vis) |-> Overlap(mask_a, mask_b, vis[i])]

OverlapDictFirst(vis, ovs) ==
    [k \in {ovs[i] : i \in 1 .. Len(vis)} |->
        vis[Min({i \in 1 .. Len(vis) : ovs[i] = k})]]

\* rough_overlap_dict[overlap] = (col, row): a later anchor with the same
\* overlap replaces the earlier one
OverlapDict(vis, ovs) ==
    [k \in {ovs[i] : i \in 1 .. Len(vis)} |->
        vis[Max({i \in 1 .. Len(vis) : ovs[i] = k})]]

OptimumKeyMin(dict) == Min(DOMAIN dict)

\* max(rough_overlap_dict.keys())
OptimumKey(dict) == Max(DOMAIN dict)

Return(v) == [kind |-> "return", value |-> v]
Raise(e) == [kind |-> "raise", value |-> e]
None == "None"

\* the state rough_crop ends in: the comparison raises on shapes that do not
\* broadcast; max() of no keys raises ValueError, which the nmp variant
\* catches and logs, falling off the end of the function
rough_crop(mask_a, mask_b, step, variant) ==
    LET vis  == VisitOrder(mask_a, mask_b, step)
        ovs  == Overlaps(mask_a, mask_b, vis)
        dict == OverlapDict(vis, ovs)
    IN  IF \E i \in 1 .. Len(vis) : ovs[i] = NoBroadcast
        THEN [visited |-> vis, overlaps |-> ovs, dict |-> <<>>,
              result |-> Raise("ValueError")]
        ELSE [visited |-> vis, overlaps |-> ovs, dict |-> dict,
              result |-> IF DOMAIN dict # {}
                         THEN Return(dict[OptimumKey(dict)])
                         ELSE IF variant = "nmp" THEN Return(None)
                         ELSE Raise("ValueError")]

\* rasters of at least two rows and two columns, of at most maxcells pixels
Shapes(maxcells) ==
    {s \in (2 .. maxcells) \X (2 .. maxcells) : s[1] * s[2] <= maxcells}
Masks(maxcells) ==
    UNION {BinGrids(s[1], s[2]) : s \in Shapes(maxcells)}

InitRough ==
    /\ rc \in [pc : {"call"},
               mask_a : Masks(RefCells), mask_b : Masks(TargetCells),
               step : 1 .. MaxStep, out : {None}]
    /\ mm = Idle
    /\ wk = Idle
    /\ sg = Idle
    /\ co = Idle
    /\ ut = Idle
    /\ bt = Idle

RoughCrop ==
    /\ rc.pc = "call"
    /\ rc' = [rc EXCEPT
                !.pc = "done",
                !.out = rough_crop(rc.mask_a, rc.mask_b, rc.step, "pool")]
    /\ UNCHANGED <<mm, wk, sg, co, ut, bt>>

NextRough == RoughCrop

SpecRough == InitRough /\ [][NextRough]_vars

(***************************************************************************)
(* fluor_cropper.overlap_crop and fluor_cropper_nmp.overlap_crop           *)
(*                                                                         *)
(* The rasters have their real sizes, so only their shapes are kept.  What *)
(* the image contents decide is drawn from the outcomes the code allows:   *)
(* whether shw_segmentation and centre_primary_label raise, which visited  *)
(* anchor has the largest overlap, and the shift that                      *)
(* phase_cross_correlation returns.                                        *)
(***************************************************************************)
FluorRows == 2823
FluorCols == 3750
CoarseStep == 50
CropSide == 1500
PadWidth == 500

FluorShape == <<FluorRows, FluorCols>>
PaddedShape == <<FluorRows + 2 * PadWidth, FluorCols + 2 * PadWidth>>
CropSize == <<CropSide, CropSide>>

ShapeOnly(shape) == [shape |-> shape]

\* phase_cross_correlation returns, on an axis of length n, a whole shift
\* in -(n // 2) + 1 .. n // 2; the model samples them every ShiftGrain
ShiftsOn(n) == {sh \in (1 - n \div 2) .. (n \div 2) : sh % ShiftGrain = 0}

\* the visited anchors the model lets the coarse search return: the first
\* and the last of the scan
AnchorSamples(vis) ==
    IF vis = <<>> THEN {None} ELSE {vis[1], vis[Len(vis)]}

Picks(rgb_shape) ==
    [seg_ok : BOOLEAN, centre_ok : BOOLEAN,
     anchor : AnchorSamples(VisitOrder(ShapeOnly(rgb_shape),
                                       ShapeOnly(FluorShape), CoarseStep)),
     shift : ShiftsOn(rgb_shape[1]) \X ShiftsOn(rgb_shape[2])]

\* rough_crop as overlap_crop sees it, the masks reduced to their shapes
RoughCentre(rgb_shape, pick, variant) ==
    LET vis == VisitOrder(ShapeOnly(rgb_shape), ShapeOnly(FluorShape),
                          CoarseStep)
        crop == CropShape(FluorShape, vis[1], rgb_shape)
    IN  IF vis = <<>>
        THEN (IF variant = "nmp" THEN Return(None) ELSE Raise("ValueError"))
        ELSE IF BroadcastDim(crop[1], rgb_shape[1]) = NoBroadcast
                \/ BroadcastDim(crop[2], rgb_shape[2]) = NoBroadcast
        THEN Raise("ValueError")
        ELSE Return(pick.anchor)

\* (int(rough_cen[0] - shift[1]), int(rough_cen[1] - shift[0]))
Corrected(rough_cen, shift) ==
    <<rough_cen[1] - shift[2], rough_cen[2] - shift[1]>>

overlap_crop(rgb_shape, pick, variant) ==
    LET rough == RoughCentre(rgb_shape, pick, variant)
        crop  == CropShape(FluorShape, rough.value, CropSize)
    IN  IF ~pick.seg_ok THEN Raise("IndexError")
        ELSE IF rough.kind = "raise" THEN rough
        ELSE IF rough.value = None THEN Raise("TypeError")
        ELSE IF crop[1] * crop[2] = 0 THEN Raise("ValueError")
        ELSE IF ~pick.centre_ok THEN Raise("ValueError")
        ELSE IF crop # rgb_shape THEN Raise("ValueError")
        ELSE Return(Corrected(rough.value, pick.shift))

OverlapOutcomes(rgb_shape, variant) ==
    {overlap_crop(rgb_shape, pick, variant) : pick \in Picks(rgb_shape)}

(***************************************************************************)
(* fluor_cropper.worker and fluor_cropper_nmp.worker                       *)
(***************************************************************************)
Unbound == "unbound"

\* the shapes of the RGB crops paired with a frame: the size cropper.py
\* writes, and one too large to fit the fluorescence raster
RgbShapes == {<<CropSide, CropSide>>, <<2 * CropSide, 2 * CropSide>>}

RECURSIVE SeqsUpTo(_, _)
SeqsUpTo(S, n) ==
    IF n = 0 THEN {<<>>}
    ELSE LET shorter == SeqsUpTo(S, n - 1)
         IN  shorter \cup {Append(q, x) : q \in shorter, x \in S}

InitWorker ==
    /\ wk \in [pc : {"start"}, variant : {"pool", "nmp"},
               rgbs : SeqsUpTo(RgbShapes, MaxRgbs),
               fm_im : {Unbound}, new_centre : {Unbound}, i : {1},
               outcomes : {<<>>}, saved : {<<>>}, printed : {<<>>}]
    /\ mm = Idle
    /\ rc = Idle
    /\ sg = Idle
    /\ co = Idle
    /\ ut = Idle
    /\ bt = Idle

\* if rgbs: try: fm_im = transform.resize(utils.read_fimg(fm), ...)
WorkerReadFm ==
    /\ wk.pc = "start"
    /\ \E ok \in BOOLEAN :
          wk' = IF wk.rgbs = <<>> THEN [wk EXCEPT !.pc = "returned"]
                ELSE IF ok THEN [wk EXCEPT !.pc = "loop", !.fm_im = "bound"]
                ELSE [wk EXCEPT
                        !.pc = IF wk.variant = "nmp" THEN "returned"
                               ELSE "loop",
                        !.printed = Append(@, <<"fluorescence", 0>>)]
    /\ UNCHANGED <<mm, rc, sg, co, ut, bt>>

SavedCrop(k, centre) ==
    [rgb |-> k, centre |-> centre,
     shape |-> CropShape(PaddedShape,
                         <<centre[1] + PadWidth, centre[2] + PadWidth>>,
                         CropSize)]

\* one iteration of "for rgb in rgbs" whose io.imread raises: neither
\* worker catches it
WorkerRgbUnreadable ==
    /\ wk.pc = "loop"
    /\ wk.i <= Len(wk.rgbs)
    /\ wk' = [wk EXCEPT !.pc = "raised",
                        !.outcomes = Append(@, [read |-> FALSE,
                                                out |-> Raise("OSError")])]
    /\ UNCHANGED <<mm, rc, sg, co, ut, bt>>

\* the statements after the try of one iteration: the crop from the padded
\* raster at new_centre and np.save
AfterTry(w, out) ==
    LET centre == IF out.kind = "return" THEN out.value ELSE w.new_centre
    IN  IF w.fm_im = Unbound \/ centre = Unbound
        THEN [w EXCEPT !.pc = "raised"]
        ELSE [w EXCEPT !.new_centre = centre,
                       !.saved = Append(@, SavedCrop(w.i, centre)),
                       !.i = @ + 1]

\* one iteration of the loop of fluor_cropper.worker
WorkerRgbPool ==
    /\ wk.pc = "loop"
    /\ wk.variant = "pool"
    /\ wk.i <= Len(wk.rgbs)
    /\ \E res \in OverlapOutcomes(wk.rgbs[wk.i], "pool") :
          LET out == IF wk.fm_im = Unbound THEN Raise("NameError") ELSE res
              w1  == [wk EXCEPT
                        !.outcomes = Append(@, [read |-> TRUE, out |-> out]),
                        !.printed = IF out.kind = "raise"
                                    THEN Append(@, <<"overlap", wk.i>>)
                                    ELSE @]
          IN  wk' = AfterTry(w1, out)
    /\ UNCHANGED <<mm, rc, sg, co, ut, bt>>

\* one iteration of the loop of fluor_cropper_nmp.worker
WorkerRgbNmp ==
    /\ wk.pc = "loop"
    /\ wk.variant = "nmp"
    /\ wk.i <= Len(wk.rgbs)
    /\ \E out \in OverlapOutcomes(wk.rgbs[wk.i], "nmp") :
          LET w1 == [wk EXCEPT
                        !.outcomes = Append(@, [read |-> TRUE, out |-> out])]
          IN  wk' = IF out.kind = "raise"
                    THEN [w1 EXCEPT !.pc = "returned",
                                    !.printed = Append(@, <<"overlap", wk.i>>)]
                    ELSE AfterTry(w1, out)
    /\ UNCHANGED <<mm, rc, sg, co, ut, bt>>

\* the loop has run over every RGB image
WorkerReturn ==
    /\ wk.pc = "loop"
    /\ wk.i > Len(wk.rgbs)
    /\ wk' = [wk EXCEPT !.pc = "returned"]
    /\ UNCHANGED <<mm, rc, sg, co, ut, bt>>

NextWorker ==
    \/ WorkerReadFm
    \/ WorkerRgbUnreadable
    \/ WorkerRgbPool
    \/ WorkerRgbNmp
    \/ WorkerReturn

SpecWorker == InitWorker /\ [][NextWorker]_vars

(***************************************************************************)
(* numpy.histogram(comp_sob, bins=100)                                     *)
(*                                                                         *)
(* Pixel values are whole numbers.  Twice the first and last bin edge are  *)
(* whole (a one-valued image widens its range by 0.5 on each side), so the *)
(* bin edges are kept in units of 1/200.                                   *)
(***************************************************************************)
NBins == 100

PixelValues(im) == {im.px[p] : p \in DOMAIN im.px}
First2(im) ==
    IF Min(PixelValues(im)) = Max(PixelValues(im))
    THEN 2 * Min(PixelValues(im)) - 1 ELSE 2 * Min(PixelValues(im))
Last2(im) ==
    IF Min(PixelValues(im)) = Max(PixelValues(im))
    THEN 2 * Max(PixelValues(im)) + 1 ELSE 2 * Max(PixelValues(im))

\* bins[i], in units of 1/200
Edge200(im, i) == NBins * First2(im) + i * (Last2(im) - First2(im))

\* the bin a value falls in: the last bin includes the last edge
BinOf(first2, last2, v) ==
    IF 2 * v = last2 THEN NBins - 1
    ELSE ((2 * v - first2) * NBins) \div (last2 - first2)

RECURSIVE Array(_, _, _)
\* a numpy array holding f[i] .. f[n - 1]: element k of an array that starts
\* at 0 is Array(f, 0, n)[k + 1]
Array(f, i, n) ==
    IF n <= i THEN <<>>
    ELSE IF n = i + 1 THEN <<f[i]>>
    ELSE Array(f, i, (i + n) \div 2) \o Array(f, (i + n) \div 2, n)

\* values
Histogram(im) ==
    LET first2 == First2(im)
        last2 == Last2(im)
        bins == {BinOf(first2, last2, v) : v \in PixelValues(im)}
    IN  Array([i \in 0 .. NBins - 1 |->
                  IF i \in bins
                  THEN Cardinality({p \in DOMAIN im.px :
                                      BinOf(first2, last2, im.px[p]) = i})
                  ELSE 0], 0, NBins)

\* -values
Negated(x) == Array([i \in 0 .. Len(x) - 1 |-> 0 - x[i + 1]], 0, Len(x))

(***************************************************************************)
(* scipy.signal.find_peaks(x, distance=distance)                           *)
(***************************************************************************)
\* _local_maxima_1d: a sample higher than the one before it opens a
\* plateau, which runs to the next sample that differs from its successor;
\* the plateau is a maximum when that successor is lower, and its midpoint
\* is reported.  The first and the last sample are never maxima
LocalMaxima(x) ==
    LET n == Len(x)
        rising == {i \in 1 .. n - 2 : x[i] < x[i + 1]}
        changes == {j \in 1 .. n - 2 : x[j + 2] # x[j + 1]}
    IN  {(l + Min({j \in changes : j >= l})) \div 2 :
            l \in {i \in rising :
                    /\ \E j \in changes : j >= i
                    /\ LET r == Min({j \in changes : j >= i})
                       IN  x[r + 2] < x[r + 1]}}

\* the peak _select_by_peak_distance looks at next: the highest remaining
\* one, the rightmost among equals (argsort keeps equal priorities in index
\* order, and the loop runs from the end of that order)
NextByPriority(x, todo) ==
    CHOOSE j \in todo :
        \A k \in todo :
            x[k + 1] < x[j + 1] \/ (x[k + 1] = x[j + 1] /\ k <= j)

RECURSIVE SelectByDistance(_, _, _, _)
SelectByDistance(x, distance, todo, keep) ==
    IF todo = {} THEN keep
    ELSE LET j == NextByPriority(x, todo)
         IN  SelectByDistance(
                 x, distance, todo \ {j},
                 IF j \in keep
                 THEN {k \in keep : k = j \/ k - j >= distance
                                          \/ j - k >= distance}
                 ELSE keep)

RECURSIVE Ascending(_)
Ascending(S) ==
    IF S = {} THEN <<>> ELSE <<Min(S)>> \o Ascending(S \ {Min(S)})

\* the indices of the peaks, ascending
find_peaks(x, distance) ==
    LET peaks == LocalMaxima(x)
    IN  Ascending(SelectByDistance(x, distance, peaks, peaks))

(***************************************************************************)
(* segment.shw_segmentation                                                *)
(***************************************************************************)
Distance == 10
ErosionRadius == 2

\* (bg_mod, fg_mod) in hundredths: the defaults 0.15 and 0.2, a
\* foreground modifier that puts the threshold above the second maximum
\* and, for some images, above every pixel, and a background modifier that
\* puts the background threshold above the foreground threshold
ModPairs == {<<15, 20>>, <<15, 400>>, <<300, 20>>}

\* the values a pixel of the compound Sobel channel takes in the model
Levels == {0, 20, 60, 100}

\* max_i, and min_i with the bins not above bins[max_i[0]] dropped (the
\* bin edges rise with the index); line 138 needs max_i[0]
PeakBins(im, distance) ==
    LET values == Histogram(im)
        max_i == find_peaks(values, distance)
        min_i == find_peaks(Negated(values), distance)
    IN  [max_i |-> max_i,
         min_all |-> min_i,
         min_i |-> IF max_i = <<>> THEN <<>>
                   ELSE SelectSeq(min_i, LAMBDA i : i > max_i[1])]

\* the thresholds exist when no index at lines 138-141 is out of range
ThresholdsExist(pk) == Len(pk.max_i) >= 2 /\ Len(pk.min_i) >= 1

\* max_bins[0] + bg_mod * (min_bins[0] - max_bins[0]), in units of 1/20000
BgThreshold(im, pk, bg_mod) ==
    LET mx0 == Edge200(im, pk.max_i[1])
        mn0 == Edge200(im, pk.min_i[1])
    IN  100 * mx0 + bg_mod * (mn0 - mx0)

\* min_bins[0] + fg_mod * (max_bins[1] - min_bins[0]), in units of 1/20000
FgThreshold(im, pk, fg_mod) ==
    LET mn0 == Edge200(im, pk.min_i[1])
        mx1 == Edge200(im, pk.max_i[2])
    IN  100 * mn0 + fg_mod * (mx1 - mn0)

MarkersBgLast(im, bg, fg) ==
    Grid(im.shape[1], im.shape[2],
         [p \in DOMAIN im.px |->
             IF 20000 * im.px[p] <= bg THEN 1
             ELSE IF 20000 * im.px[p] >= fg THEN 2 ELSE 0])

\* markers[comp_sob <= bg] = 1, then markers[comp_sob >= fg] = 2
Markers(im, bg, fg) ==
    Grid(im.shape[1], im.shape[2],
         [p \in DOMAIN im.px |->
             IF 20000 * im.px[p] >= fg THEN 2
             ELSE IF 20000 * im.px[p] <= bg THEN 1 ELSE 0])

\* pixels that share an edge
Adjacent(p, q) ==
    \/ (p[1] = q[1] /\ (p[2] - q[2] = 1 \/ q[2] - p[2] = 1))
    \/ (p[2] = q[2] /\ (p[1] - q[1] = 1 \/ q[1] - p[1] = 1))

\* neighbours under skimage's connectivity: 1 shares an edge, 2 shares an
\* edge or a corner
Neighbours(p, q, connectivity) ==
    IF connectivity = 1 THEN Adjacent(p, q)
    ELSE /\ p # q
         /\ p[1] - q[1] \in {-1, 0, 1}
         /\ p[2] - q[2] \in {-1, 0, 1}

RECURSIVE Flood(_, _, _)
\* the pixels of region joined to the seeds through neighbouring pixels of
\* region
Flood(seeds, region, connectivity) ==
    LET more == {q \in region \ seeds :
                   \E p \in seeds : Neighbours(p, q, connectivity)}
    IN  IF more = {} THEN seeds
        ELSE Flood(seeds \cup more, region, connectivity)

\* skimage.segmentation.watershed(elevation, markers): every seed keeps its
\* label and every other pixel takes the label of a seed whose basin
\* reaches it through edge-sharing pixels; which basin wins is decided by
\* the elevation, which the model leaves open.  Without seeds nothing is
\* labelled
WatershedOutcomes(markers) ==
    LET labels == {markers.px[p] : p \in DOMAIN markers.px} \ {0}
        unseeded == {p \in DOMAIN markers.px : markers.px[p] = 0}
        Filled(f) == [p \in DOMAIN markers.px |->
                        IF p \in unseeded THEN f[p] ELSE markers.px[p]]
    IN  IF labels = {} THEN {markers}
        ELSE {Grid(markers.shape[1], markers.shape[2], g) :
                g \in {Filled(f) : f \in
                        {h \in [unseeded -> labels] :
                            \A l \in labels :
                                LET region == {p \in DOMAIN markers.px :
                                                 Filled(h)[p] = l}
                                    seeds == {p \in region :
                                                 markers.px[p] = l}
                                IN  Flood(seeds, region, 1) = region}}}

\* morphology.disk(radius) as offsets
Disk(radius) ==
    {d \in (0 - radius .. radius) \X (0 - radius .. radius) :
        d[1] * d[1] + d[2] * d[2] <= radius * radius}

\* morphology.erosion(mask, footprint=disk(2)): the least value under the
\* footprint; positions off the image mirror onto pixels the footprint
\* already covers
Erosion(im, radius) ==
    Grid(im.shape[1], im.shape[2],
         [p \in DOMAIN im.px |->
             Min({im.px[<<p[1] + d[1], p[2] + d[2]>>] :
                    d \in {e \in Disk(radius) :
                            <<p[1] + e[1], p[2] + e[2]>> \in DOMAIN im.px}})])

MinusNothing(im) == im

\* mask - 1
MinusOne(im) ==
    Grid(im.shape[1], im.shape[2], [p \in DOMAIN im.px |-> im.px[p] - 1])

SobShapes ==
    {sh \in (1 .. SobPix) \X (1 .. SobPix) :
        sh[1] * sh[2] = SobPix /\ sh[1] <= sh[2]}

SobImages ==
    UNION {{Grid(sh[1], sh[2], f) : f \in [Idx(sh[1], sh[2]) -> Levels]} :
             sh \in SobShapes}

InitShw ==
    /\ sg \in [pc : {"call"}, comp_sob : SobImages, mods : ModPairs,
               max_i : {None}, min_i : {None}, markers : {None},
               out : {None}]
    /\ mm = Idle
    /\ rc = Idle
    /\ wk = Idle
    /\ co = Idle
    /\ ut = Idle
    /\ bt = Idle

\* a call that derives thresholds and returns a mask
ShwSegmentation ==
    /\ sg.pc = "call"
    /\ LET pk == PeakBins(sg.comp_sob, Distance)
       IN  /\ ThresholdsExist(pk)
           /\ LET markers == Markers(sg.comp_sob,
                                 BgThreshold(sg.comp_sob, pk, sg.mods[1]),
                                 FgThreshold(sg.comp_sob, pk, sg.mods[2]))
              IN  \E mask \in WatershedOutcomes(markers) :
                     sg' = [sg EXCEPT
                              !.pc = "done",
                              !.max_i = pk.max_i,
                              !.min_i = pk.min_all,
                              !.markers = markers,
                              !.out = Return(MinusOne(
                                          Erosion(mask, ErosionRadius)))]
    /\ UNCHANGED <<mm, rc, wk, co, ut, bt>>

ShwDefaultThreshold ==
    /\ sg.pc = "call"
    /\ LET pk == PeakBins(sg.comp_sob, Distance)
       IN  /\ ~ThresholdsExist(pk)
           /\ sg' = [sg EXCEPT
                !.pc = "done",
                !.max_i = pk.max_i,
                !.min_i = pk.min_all,
                !.out = Return(Grid(sg.comp_sob.shape[1],
                                    sg.comp_sob.shape[2],
                                    [p \in DOMAIN sg.comp_sob.px |-> 0]))]
    /\ UNCHANGED <<mm, rc, wk, co, ut, bt>>

\* a call whose histogram has too few peaks: an index at lines 138-141 is
\* out of range
ShwNoThreshold ==
    /\ sg.pc = "call"
    /\ LET pk == PeakBins(sg.comp_sob, Distance)
       IN  /\ ~ThresholdsExist(pk)
           /\ sg' = [sg EXCEPT !.pc = "done",
                               !.max_i = pk.max_i,
                               !.min_i = pk.min_all,
                               !.out = Raise("IndexError")]
    /\ UNCHANGED <<mm, rc, wk, co, ut, bt>>

NextShw == ShwSegmentation \/ ShwNoThreshold

SpecShw == InitShw /\ [][NextShw]_vars

\* the two producers of label masks side by side
InitLabels == InitMerge \/ InitShw
NextLabels == MergeMasks \/ ShwSegmentation \/ ShwNoThreshold
SpecLabels == InitLabels /\ [][NextLabels]_vars

(***************************************************************************)
(* Rationals in [0, 1] for HSV channels, as <<numerator, denominator>>     *)
(***************************************************************************)
Q(n, d) == IF n = 0 THEN <<0, 1>> ELSE <<n, d>>
QLe(a, b) == a[1] * b[2] <= b[1] * a[2]
QSub(a, b) == Q(a[1] * b[2] - b[1] * a[2], a[2] * b[2])
QAdd(a, b) == Q(a[1] * b[2] + b[1] * a[2], a[2] * b[2])
QEq(a, b) == a[1] * b[2] = b[1] * a[2]
QMin(S) == CHOOSE a \in S : \A b \in S : QLe(a, b)
QMax(S) == CHOOSE a \in S : \A b \in S : QLe(b, a)

RECURSIVE Stored(_, _)
\* the array f over the pixels S, every value computed once
Stored(f, S) ==
    IF S = {} THEN <<>>
    ELSE LET p == CHOOSE q \in S : TRUE
         IN  (p :> f[p]) @@ Stored(f, S \ {p})

(***************************************************************************)
(* skimage.measure.label, morphology                                       *)
(***************************************************************************)
\* position of a pixel in raster order
Raster(shape, p) == p[1] * shape[2] + p[2]

\* measure.label(mask, connectivity): the connected components of the
\* non-zero pixels, numbered from 1 in raster order of their first pixel
Label(mask, connectivity) ==
    LET fg == {p \in DOMAIN mask.px : mask.px[p] # 0}
        first == Stored([p \in fg |->
                           Min({Raster(mask.shape, q) :
                                  q \in Flood({p}, fg, connectivity)})], fg)
        firsts == {first[p] : p \in fg}
    IN  Grid(mask.shape[1], mask.shape[2],
             Stored([p \in DOMAIN mask.px |->
                       IF p \in fg
                       THEN Cardinality({f \in firsts : f <= first[p]})
                       ELSE 0], DOMAIN mask.px))

\* morphology.dilation(image, footprint): the greatest value under the
\* footprint
Dilation(im, footprint) ==
    Grid(im.shape[1], im.shape[2],
         Stored([p \in DOMAIN im.px |->
                   Max({im.px[<<p[1] + d[1], p[2] + d[2]>>] :
                          d \in {e \in footprint :
                                  <<p[1] + e[1], p[2] + e[2]>>
                                      \in DOMAIN im.px}})],
                DOMAIN im.px))

\* morphology.closing(mask, footprint=disk(radius))
Closing(im, radius) ==
    LET grown == Dilation(im, Disk(radius))
        shrunk == Erosion(grown, radius)
    IN  Grid(im.shape[1], im.shape[2], Stored(shrunk.px, DOMAIN im.px))

\* morphology.remove_small_holes(mask, area_threshold): the complement's
\* components (connectivity 1) of fewer than area_threshold pixels are set
RemoveSmallHoles(im, area_threshold) ==
    LET bg == {p \in DOMAIN im.px : im.px[p] = 0}
    IN  Grid(im.shape[1], im.shape[2],
             Stored([p \in DOMAIN im.px |->
                       IF p \in bg /\ Cardinality(Flood({p}, bg, 1))
                                          >= area_threshold
                       THEN 0 ELSE 1], DOMAIN im.px))

(***************************************************************************)
(* skimage.color: label2rgb(kind="avg"), rgb2hsv                           *)
(***************************************************************************)
RECURSIVE SumOver(_, _, _)
\* the sum of channel k of the colours f over the pixels S
SumOver(f, S, k) ==
    IF S = {} THEN 0
    ELSE LET p == CHOOSE q \in S : TRUE
         IN  f[p][k] + SumOver(f, S \ {p}, k)

\* label2rgb(labels, image, kind="avg"): every label's pixels take the
\* label's mean colour, truncated to the image's uint8; label 0 is black
Label2RgbAvg(labels, image) ==
    LET region(l) == {q \in DOMAIN labels.px : labels.px[q] = l}
        present == {labels.px[q] : q \in DOMAIN labels.px}
        mean == [l \in present |->
                   IF l = 0 THEN <<0, 0, 0>>
                   ELSE <<SumOver(image.px, region(l), 1)
                              \div Cardinality(region(l)),
                          SumOver(image.px, region(l), 2)
                              \div Cardinality(region(l)),
                          SumOver(image.px, region(l), 3)
                              \div Cardinality(region(l))>>]
        colour == Stored(mean, present)
    IN  Grid(labels.shape[1], labels.shape[2],
             Stored([p \in DOMAIN labels.px |-> colour[labels.px[p]]],
                    DOMAIN labels.px))

\* rgb2hsv of one uint8 colour: hue, saturation and value as rationals.
\* The hue is taken from the last channel that equals the maximum (red,
\* then green, then blue overwrite each other), divided by 6, modulo 1
rgb2hsv(rgb) ==
    LET mx == Max({rgb[1], rgb[2], rgb[3]})
        delta == mx - Min({rgb[1], rgb[2], rgb[3]})
        h6 == IF rgb[3] = mx THEN 4 * delta + (rgb[1] - rgb[2])
              ELSE IF rgb[2] = mx THEN 2 * delta + (rgb[3] - rgb[1])
              ELSE rgb[2] - rgb[3]
    IN  <<IF delta = 0 THEN Q(0, 1) ELSE Q(h6 % (6 * delta), 6 * delta),
          IF delta = 0 THEN Q(0, 1) ELSE Q(delta, mx),
          Q(mx, 255)>>

(***************************************************************************)
(* utils.threshold_between, with and_mask=True                             *)
(***************************************************************************)
\* "if not x_low": None and 0 both count as not given
NotGiven(bound) == bound = None \/ bound[1] = 0

\* low and high hold the three channels' bounds
threshold_between(image, low, high) ==
    LET channel(k) == {image.px[p][k] : p \in DOMAIN image.px}
        lo == [k \in 1 .. 3 |->
                 IF NotGiven(low[k]) THEN QMin(channel(k)) ELSE low[k]]
        hi == [k \in 1 .. 3 |->
                 IF NotGiven(high[k]) THEN QMax(channel(k)) ELSE high[k]]
    IN  Grid(image.shape[1], image.shape[2],
             Stored([p \in DOMAIN image.px |->
                       IF \A k \in 1 .. 3 :
                            /\ QLe(lo[k], image.px[p][k])
                            /\ QLe(image.px[p][k], hi[k])
                       THEN 1 ELSE 0], DOMAIN image.px))

(***************************************************************************)
(* utils.canny_labs, utils.centre_primary_label, utils.canny_central_ob    *)
(***************************************************************************)
Radius == 200
CentralArea == 200
HoleArea == 150
ClosingRadius == 3

\* the colours a pixel of the RGB image takes in the model: leaf green,
\* necrotic brown and a grey without hue
Palette == {<<60, 180, 60>>, <<180, 120, 60>>, <<90, 90, 90>>}

\* feature.canny, closed and skeletonized: the edge pixels.  An image of
\* one colour has none; otherwise the filter marks no pixel or one pixel
\* that borders a pixel of another colour (which one depends on sigma)
CannyOutcomes(image) ==
    {{}} \cup
    {{p} : p \in {q \in DOMAIN image.px :
                    \E r \in DOMAIN image.px :
                        Adjacent(q, r) /\ image.px[q] # image.px[r]}}

\* mask[canny_f == 1] = 0; labels = label(mask, connectivity=1);
\* return dilation(labels), the footprint being the pixel and the four
\* pixels that share an edge with it
canny_labs(mask, canny_f) ==
    LET cut == Grid(mask.shape[1], mask.shape[2],
                    Stored([p \in DOMAIN mask.px |->
                              IF p \in canny_f THEN 0 ELSE mask.px[p]],
                           DOMAIN mask.px))
    IN  Dilation(Label(cut, 1), Disk(1))

\* np.argmax(np.bincount(crop[crop != bg_label].ravel())): the label
\* counted most often in the central window, the lowest of them on a tie;
\* argmax of an empty count raises ValueError
centre_primary_label(lab_im, radius, bg_label) ==
    LET centre == <<lab_im.shape[1] \div 2, lab_im.shape[2] \div 2>>
        crop == crop_region(lab_im, centre, <<radius, radius>>)
        labs == {crop.px[p] : p \in DOMAIN crop.px} \ {bg_label}
        count == Stored([l \in labs |->
                           Cardinality({p \in DOMAIN crop.px :
                                          crop.px[p] = l})], labs)
    IN  IF labs = {} THEN Raise("ValueError")
        ELSE Return(CHOOSE l \in labs :
                      \A m \in labs :
                          count[m] < count[l]
                              \/ (count[m] = count[l] /\ l <= m))

\* np.unique(channel)[-1]: the greatest value of the channel, never an error
LastUnique(values) == Return(QMax(values))

\* np.unique(channel)[1]: the second smallest value of the channel, an
\* IndexError when the channel holds one value
SecondUnique(values) ==
    IF \A a \in values, b \in values : QEq(a, b) THEN Raise("IndexError")
    ELSE Return(QMin({a \in values : ~QEq(a, QMin(values))}))

\* the stages of canny_central_ob after the primary label is known
CentralObject(image, canny_labelled, prim_lab) ==
    LET average_cols ==
            LET avg == Label2RgbAvg(canny_labelled, image)
            IN  Grid(avg.shape[1], avg.shape[2],
                     Stored([p \in DOMAIN avg.px |-> rgb2hsv(avg.px[p])],
                            DOMAIN avg.px))
        \* multichannel_mask(average_cols, canny_labelled == prim_lab)
        prim_area == Stored([p \in DOMAIN average_cols.px |->
                               IF canny_labelled.px[p] = prim_lab
                               THEN average_cols.px[p]
                               ELSE <<Q(0, 1), Q(0, 1), Q(0, 1)>>],
                            DOMAIN average_cols.px)
        main == [k \in 1 .. 3 |->
                   SecondUnique({prim_area[p][k] : p \in DOMAIN prim_area})]
    IN  IF \E k \in 1 .. 3 : main[k].kind = "raise"
        THEN Raise("IndexError")
        ELSE LET h_main == main[1].value
                 s_main == main[2].value
                 v_main == main[3].value
                 mask == threshold_between(
                             average_cols,
                             <<QSub(h_main, <<1, 10>>),
                               QSub(s_main, <<1, 4>>),
                               QSub(v_main, <<1, 4>>)>>,
                             <<QAdd(h_main, <<1, 10>>),
                               QAdd(s_main, <<1, 4>>),
                               QAdd(v_main, <<1, 4>>)>>)
             IN  Return(RemoveSmallHoles(Closing(mask, ClosingRadius),
                                         HoleArea))

canny_central_ob(image, mask, canny_f) ==
    LET bg_labs == Label(mask, 2)
        centre_lab == centre_primary_label(bg_labs, Radius, 0)
    IN  IF centre_lab.kind = "raise" THEN centre_lab
        ELSE LET central == Grid(mask.shape[1], mask.shape[2],
                                 Stored([p \in DOMAIN mask.px |->
                                           IF bg_labs.px[p] = centre_lab.value
                                           THEN 1 ELSE 0], DOMAIN mask.px))
                 canny_labelled == canny_labs(central, canny_f)
                 prim_lab == centre_primary_label(canny_labelled,
                                                  CentralArea, 0)
             IN  IF prim_lab.kind = "raise" THEN prim_lab
                 ELSE CentralObject(image, canny_labelled, prim_lab.value)

\* Op(v), with v computed once
With(v, Op(_)) == CHOOSE r \in {Op(x) : x \in {v}} : TRUE

\* the local variables of canny_central_ob when it ends: bg_labs,
\* canny_labelled, prim_lab and prim_area, None for those never assigned;
\* reached names the last of them that was assigned
CannyLocals(image, mask, canny_f) ==
    With(Label(mask, 2), LAMBDA bg_labs :
    With(centre_primary_label(bg_labs, Radius, 0), LAMBDA centre_lab :
        IF centre_lab.kind = "raise"
        THEN [reached |-> "bg_labs", bg_labs |-> bg_labs,
              canny_labelled |-> None, prim_lab |-> None,
              prim_area |-> None]
        ELSE
    With(canny_labs(Grid(mask.shape[1], mask.shape[2],
                         [p \in DOMAIN mask.px |->
                            IF bg_labs.px[p] = centre_lab.value
                            THEN 1 ELSE 0]), canny_f),
         LAMBDA canny_labelled :
    With(centre_primary_label(canny_labelled, CentralArea, 0),
         LAMBDA prim_lab :
        IF prim_lab.kind = "raise"
        THEN [reached |-> "canny_labelled", bg_labs |-> bg_labs,
              canny_labelled |-> canny_labelled, prim_lab |-> None,
              prim_area |-> None]
        ELSE
    With(Label2RgbAvg(canny_labelled, image), LAMBDA avg :
        [reached |-> "prim_area",
         bg_labs |-> bg_labs,
         canny_labelled |-> canny_labelled,
         prim_lab |-> prim_lab.value,
         prim_area |-> [p \in DOMAIN avg.px |->
                          IF canny_labelled.px[p] = prim_lab.value
                          THEN rgb2hsv(avg.px[p])
                          ELSE <<Q(0, 1), Q(0, 1), Q(0, 1)>>]])))))

CanShapes ==
    {sh \in (1 .. CanPix) \X (1 .. CanPix) :
        sh[1] * sh[2] = CanPix /\ sh[1] <= sh[2]}

InitCanny ==
    /\ \E sh \in CanShapes :
          co \in [pc : {"call"},
                  image : {Grid(sh[1], sh[2], f) :
                             f \in [Idx(sh[1], sh[2]) -> Palette]},
                  mask : BinGrids(sh[1], sh[2]),
                  locals : {None},
                  out : {None}]
    /\ mm = Idle
    /\ rc = Idle
    /\ wk = Idle
    /\ sg = Idle
    /\ ut = Idle
    /\ bt = Idle

CannyCentralOb ==
    /\ co.pc = "call"
    /\ \E canny_f \in CannyOutcomes(co.image) :
          co' = [co EXCEPT
                   !.pc = "done",
                   !.locals = CannyLocals(co.image, co.mask, canny_f),
                   !.out = canny_central_ob(co.image, co.mask, canny_f)]
    /\ UNCHANGED <<mm, rc, wk, sg, ut, bt>>

NextCanny == CannyCentralOb

SpecCanny == InitCanny /\ [][NextCanny]_vars

(***************************************************************************)
(* Exp_3_segmentation.shw_segmentation, as segment_file calls it           *)
(***************************************************************************)
ExpDistance == 15
ExpMods == <<50, 50>>
HueCutoff == 35

\* numpy operands with their dtype
Float64(v) == [dtype |-> "float64", value |-> v]
BoolArray(a) == [dtype |-> "bool", value |-> a]

\* np.bitwise_or, the ufunc behind the operator |: it has no loop for
\* floating point operands and raises TypeError for them; on booleans it
\* is the element-wise disjunction
bitwise_or(a, b) ==
    IF a.dtype = "float64" \/ b.dtype = "float64" THEN Raise("TypeError")
    ELSE Return(BoolArray([p \in DOMAIN b.value |->
                             IF DOMAIN a.value = DOMAIN b.value
                             THEN a.value[p] \/ b.value[p]
                             ELSE a.value \/ b.value[p]]))

\* lines 36-44: the marker grid, or the exception that ends the call.
\* In the index of line 41-43 the operator | binds tighter than <=, so the
\* index is comp_sob <= (threshold | (hue > 0.35)).  hue is in hundredths
Exp3Markers(comp_sob, hue, pk, bg_mod, fg_mod) ==
    IF pk.max_i = <<>> THEN Raise("IndexError")
    ELSE IF pk.min_i = <<>> THEN Raise("IndexError")
    ELSE LET bound == bitwise_or(
                          Float64(BgThreshold(comp_sob, pk, bg_mod)),
                          BoolArray([p \in DOMAIN hue |->
                                       hue[p] > HueCutoff]))
         IN  IF bound.kind = "raise" THEN bound
             ELSE IF Len(pk.max_i) < 2 THEN Raise("IndexError")
             ELSE Return(Grid(comp_sob.shape[1], comp_sob.shape[2],
                     [p \in DOMAIN comp_sob.px |->
                        IF 20000 * comp_sob.px[p]
                             >= FgThreshold(comp_sob, pk, fg_mod)
                        THEN 2
                        ELSE IF 20000 * comp_sob.px[p]
                                  <= (IF bound.value.value[p]
                                      THEN 20000 ELSE 0)
                             THEN 1 ELSE 0]))

\* what the call returns or raises
Exp3Outcomes(markers) ==
    IF markers.kind = "raise" THEN {markers}
    ELSE {Return(MinusOne(Erosion(mask, ErosionRadius))) :
            mask \in WatershedOutcomes(markers.value)}

\* the hue planes of the model: one hue below the cutoff, one above it,
\* and both in alternation
HuePlanes(sh) ==
    {[p \in Idx(sh[1], sh[2]) |-> h] : h \in {20, 50}}
        \cup {[p \in Idx(sh[1], sh[2]) |->
                 IF (p[1] + p[2]) % 2 = 0 THEN 50 ELSE 20]}

InitExp3 ==
    /\ \E im \in SobImages :
          sg \in [pc : {"call"}, comp_sob : {im}, hue : HuePlanes(im.shape),
                  mods : {ExpMods}, max_i : {None}, min_i : {None},
                  markers : {None}, out : {None}]
    /\ mm = Idle
    /\ rc = Idle
    /\ wk = Idle
    /\ co = Idle
    /\ ut = Idle
    /\ bt = Idle

\* segment_file, line 95: the call is outside every try, so what
\* shw_segmentation raises leaves segment_file
Exp3ShwSegmentation ==
    /\ sg.pc = "call"
    /\ LET pk == PeakBins(sg.comp_sob, ExpDistance)
           markers == Exp3Markers(sg.comp_sob, sg.hue, pk,
                                  sg.mods[1], sg.mods[2])
       IN  \E out \in Exp3Outcomes(markers) :
              sg' = [sg EXCEPT
                       !.pc = "done",
                       !.max_i = pk.max_i,
                       !.min_i = pk.min_all,
                       !.markers = IF markers.kind = "raise" THEN None
                                   ELSE markers.value,
                       !.out = out]
    /\ UNCHANGED <<mm, rc, wk, co, ut, bt>>

NextExp3 == Exp3ShwSegmentation

SpecExp3 == InitExp3 /\ [][NextExp3]_vars

(***************************************************************************)
(* One call of utils.centre_primary_label on a labelled grid               *)
(***************************************************************************)
CenCells == 8
CenLabels == 2

CenShapes ==
    {sh \in (1 .. CenCells) \X (1 .. CenCells) : sh[1] * sh[2] <= CenCells}

CenRadii == {2, 3}

InitCentre ==
    /\ \E sh \in CenShapes :
          ut \in [pc : {"call"},
                  lab_im : {Grid(sh[1], sh[2], f) :
                              f \in [Idx(sh[1], sh[2]) -> 0 .. CenLabels]},
                  radius : CenRadii,
                  bg_label : {0, 1},
                  out : {None}]
    /\ mm = Idle
    /\ rc = Idle
    /\ wk = Idle
    /\ sg = Idle
    /\ co = Idle
    /\ bt = Idle

CentrePrimaryLabel ==
    /\ ut.pc = "call"
    /\ ut' = [ut EXCEPT
                !.pc = "done",
                !.out = centre_primary_label(ut.lab_im, ut.radius,
                                             ut.bg_label)]
    /\ UNCHANGED <<mm, rc, wk, sg, co, bt>>

NextCentre == CentrePrimaryLabel

SpecCentre == InitCentre /\ [][NextCentre]_vars

(***************************************************************************)
(* One call of utils.increase_contrast on a channel                        *)
(***************************************************************************)
ConCells == 4
ConLevels == 4

\* ch_max - ch_min in the denominator replaced by ch_max
increase_contrast_by_max(im_channel) ==
    LET values == {im_channel.px[p] : p \in DOMAIN im_channel.px}
        ch_min == Min(values)
        ch_max == Max(values)
    IN  IF ch_max = ch_min THEN Raise("ValueError")
        ELSE Return(Grid(im_channel.shape[1], im_channel.shape[2],
                         Stored([p \in DOMAIN im_channel.px |->
                                   Q(im_channel.px[p] - ch_min, ch_max)],
                                DOMAIN im_channel.px)))

\* ch_min = im_channel.min(); ch_max = im_channel.max(); ValueError when
\* they are equal, otherwise (im_channel - ch_min) / (ch_max - ch_min)
increase_contrast(im_channel) ==
    LET values == {im_channel.px[p] : p \in DOMAIN im_channel.px}
        ch_min == Min(values)
        ch_max == Max(values)
    IN  IF ch_max = ch_min THEN Raise("ValueError")
        ELSE Return(Grid(im_channel.shape[1], im_channel.shape[2],
                         Stored([p \in DOMAIN im_channel.px |->
                                   Q(im_channel.px[p] - ch_min,
                                     ch_max - ch_min)],
                                DOMAIN im_channel.px)))

ConShapes ==
    {sh \in (1 .. ConCells) \X (1 .. ConCells) : sh[1] * sh[2] <= ConCells}

InitContrast ==
    /\ \E sh \in ConShapes :
          ut \in [pc : {"call"},
                  im_channel : {Grid(sh[1], sh[2], f) :
                                  f \in [Idx(sh[1], sh[2]) -> 0 .. ConLevels]},
                  out : {None}]
    /\ mm = Idle
    /\ rc = Idle
    /\ wk = Idle
    /\ sg = Idle
    /\ co = Idle
    /\ bt = Idle

IncreaseContrast ==
    /\ ut.pc = "call"
    /\ ut' = [ut EXCEPT !.pc = "done",
                        !.out = increase_contrast(ut.im_channel)]
    /\ UNCHANGED <<mm, rc, wk, sg, co, bt>>

NextContrast == IncreaseContrast

SpecContrast == InitContrast /\ [][NextContrast]_vars

(***************************************************************************)
(* The batch scripts tipburn_segmentation.py and fluor_rgb_segmentation.py *)
(* main() maps the worker over the files with multiprocessing.Pool         *)
(***************************************************************************)
MaxFiles == 5
MaxCores == 2

\* the stage of the pipeline at which an image fails, "none" for an image
\* that passes every stage
Stages(script) ==
    IF script = "tipburn" THEN {"none", "read", "shw", "canny", "barb"}
    ELSE {"none", "match", "read", "shw", "canny", "barb"}

\* what one call of the worker does: how it ends, the message it prints
\* and the files it saves
Ended(kind, printed, saved) ==
    [kind |-> kind, printed |-> printed, saved |-> saved]

\* tipburn_segmentation.segment_file
segment_file(fails, diagnostic) ==
    IF fails = "read" THEN Ended("return", "Could not open", {})
    ELSE IF fails = "shw"
    THEN Ended("return", "Could not segment foreground from background", {})
    ELSE IF fails = "canny" THEN Ended("raise", None, {})
    ELSE IF fails = "barb"
    THEN Ended("return", "Could not segment healthy from brown", {"_bg"})
    ELSE IF diagnostic
    THEN Ended("return", None,
               {"_bg", "_comp", "diagnostic/_bg", "diagnostic/_fg"})
    ELSE Ended("return", None, {"_bg"})

\* fluor_rgb_segmentation.worker
worker(fails, diag) ==
    IF fails = "match" THEN Ended("return", "Could not find a fluor match", {})
    ELSE IF fails = "read" THEN Ended("raise", None, {})
    ELSE IF fails = "shw"
    THEN Ended("return", "Could not find canny central lab", {})
    ELSE IF fails = "canny" THEN Ended("raise", None, {})
    ELSE IF fails = "barb" THEN Ended("raise", None, {})
    ELSE IF diag THEN Ended("return", None, {"_comp", "diagnostic/_mask"})
    ELSE Ended("return", None, {"_comp"})

\* Pool.map: chunksize, extra = divmod(len(iterable), len(pool) * 4);
\* if extra: chunksize += 1
ChunkSize(n, cores) ==
    IF n % (cores * 4) # 0 THEN n \div (cores * 4) + 1
    ELSE n \div (cores * 4)

ChunkOf(i, n, cores) == (i - 1) \div ChunkSize(n, cores) + 1

\* the tasks of chunk c
Chunk(c, n, cores) == {i \in 1 .. n : ChunkOf(i, n, cores) = c}

ChunkFinished(c) ==
    \A i \in Chunk(c, Len(bt.files), bt.cores) : bt.task[i] # "queued"

InitBatch ==
    /\ \E n \in 1 .. MaxFiles, script \in {"tipburn", "fluor_rgb"} :
          bt \in [pc : {"map"},
                  script : {script},
                  cores : 1 .. MaxCores,
                  diagnostic : BOOLEAN,
                  files : [1 .. n -> Stages(script)],
                  task : {[i \in 1 .. n |-> "queued"]},
                  printed : {[i \in 1 .. n |-> None]},
                  saved : {[i \in 1 .. n |-> {}]},
                  table : {[i \in 1 .. n |-> None]}]
    /\ mm = Idle
    /\ rc = Idle
    /\ wk = Idle
    /\ sg = Idle
    /\ co = Idle
    /\ ut = Idle

\* a pool process takes the next task of its chunk; the chunks are handed
\* out in order to the pool's processes.  An exception ends the chunk:
\* mapstar's list(map(...)) stops at the first task that raises
RunTask(i) ==
    /\ bt.pc = "map"
    /\ bt.task[i] = "queued"
    /\ \A j \in 1 .. i - 1 :
          ChunkOf(j, Len(bt.files), bt.cores)
              = ChunkOf(i, Len(bt.files), bt.cores) => bt.task[j] # "queued"
    /\ Cardinality({c \in 1 .. ChunkOf(i, Len(bt.files), bt.cores) - 1 :
                      ~ChunkFinished(c)}) < bt.cores
    /\ LET end == IF bt.script = "tipburn"
                  THEN segment_file(bt.files[i], bt.diagnostic)
                  ELSE worker(bt.files[i], bt.diagnostic)
       IN  bt' = [bt EXCEPT
                    !.task = [j \in DOMAIN bt.task |->
                                IF j = i
                                THEN IF end.kind = "raise"
                                     THEN "raised" ELSE "returned"
                                ELSE IF /\ end.kind = "raise"
                                        /\ j > i
                                        /\ ChunkOf(j, Len(bt.files), bt.cores)
                                             = ChunkOf(i, Len(bt.files),
                                                       bt.cores)
                                     THEN "skipped"
                                     ELSE bt.task[j]],
                    !.printed[i] = end.printed,
                    !.saved[i] = end.saved]
    /\ UNCHANGED <<mm, rc, wk, sg, co, ut>>

\* pools.map returns once every chunk is done and none raised
MapReturns ==
    /\ bt.pc = "map"
    /\ \A i \in DOMAIN bt.task : bt.task[i] = "returned"
    /\ bt' = [bt EXCEPT !.pc = IF bt.script = "tipburn"
                               THEN "parse" ELSE "exit"]
    /\ UNCHANGED <<mm, rc, wk, sg, co, ut>>

\* pools.map re-raises a task's exception in main() once every chunk is
\* done; nothing in pool_handler or main() catches it
MapRaises ==
    /\ bt.pc = "map"
    /\ \A i \in DOMAIN bt.task : bt.task[i] # "queued"
    /\ \E i \in DOMAIN bt.task : bt.task[i] = "raised"
    /\ bt' = [bt EXCEPT !.pc = "traceback"]
    /\ UNCHANGED <<mm, rc, wk, sg, co, ut>>

\* the row parse_segmentations writes for an image: pixel counts when
\* io.imread opens the image's _comp.png, four NA fields when it raises
TableRow(saved) == IF "_comp" \in saved THEN "counts" ELSE "NA"

\* tipburn_segmentation.main: parse_segmentations(files, args.out)
ParseSegmentations ==
    /\ bt.pc = "parse"
    /\ bt' = [bt EXCEPT
                !.pc = "exit",
                !.table = [i \in DOMAIN bt.files |-> TableRow(bt.saved[i])]]
    /\ UNCHANGED <<mm, rc, wk, sg, co, ut>>

NextBatch ==
    \/ \E i \in DOMAIN bt.task : RunTask(i)
    \/ MapReturns
    \/ MapRaises
    \/ ParseSegmentations

SpecBatch == InitBatch /\ [][NextBatch]_vars

(***************************************************************************)
(* fluor_cropper.overlap_crop on masks: the coarse search, the crop at the *)
(* coarse anchor and the phase-correlation correction                      *)
(***************************************************************************)
RegSide == 5

\* image > filters.threshold_otsu(image) for an image of zeros and ones:
\* the ones when both values occur, nothing when the image is constant
OtsuMask(image) ==
    IF \A p \in DOMAIN image.px, q \in DOMAIN image.px :
           image.px[p] = image.px[q]
    THEN Grid(image.shape[1], image.shape[2],
              [p \in DOMAIN image.px |-> 0])
    ELSE image

\* labs == centre_primary_label(labs)
PrimaryMask(labs, prim) ==
    Grid(labs.shape[1], labs.shape[2],
         [p \in DOMAIN labs.px |-> IF labs.px[p] = prim THEN 1 ELSE 0])

\* np.roll(image, shift, axis=(0, 1))
Roll(image, shift) ==
    Grid(image.shape[1], image.shape[2],
         [p \in DOMAIN image.px |->
            image.px[<<(p[1] - shift[1]) % image.shape[1],
                       (p[2] - shift[2]) % image.shape[2]>>]])

\* shifts[shifts > midpoints] -= shape
Signed(k, n) == IF k > n \div 2 THEN k - n ELSE k

\* registration.phase_cross_correlation(reference_image, moving_image):
\* the <<row, column>> shift that registers the moving image with the
\* reference.  When the moving image is the reference rolled, the peak of
\* the cross-power spectrum is at a shift that rolls it back; otherwise
\* the peak can be at any shift
PhaseShifts(reference, moving) ==
    LET all == (0 .. reference.shape[1] - 1) \X (0 .. reference.shape[2] - 1)
        exact == {sh \in all : Roll(moving, sh) = reference}
    IN  [pinned |-> exact # {},
         shifts |-> {<<Signed(sh[1], reference.shape[1]),
                       Signed(sh[2], reference.shape[2])>> :
                       sh \in (IF exact # {} THEN exact ELSE all)}]

\* the ways overlap_crop can end, given mask_a, the result of
\* shw_segmentation(rgb_im).  The literal crop shape (1500, 1500) is the
\* shape of the RGB crops, here mask_a's shape
OverlapCropMasks(mask_a, full_image, step) ==
    LET mask_b == OtsuMask(full_image)
        rough == rough_crop(mask_a, mask_b, step, "pool").result
        ends(out, pinned) ==
            [out |-> out, rough_cen |-> rough, pinned |-> pinned]
    IN  IF rough.kind = "raise" THEN {ends(rough, FALSE)}
        ELSE LET crop == crop_region(full_image, rough.value, mask_a.shape)
                 rgb_labs == Label(mask_a, 2)
                 crop_labs == Label(OtsuMask(crop), 2)
                 rgb_prim == centre_primary_label(rgb_labs, Radius, 0)
                 crop_prim == centre_primary_label(crop_labs, Radius, 0)
             IN  IF crop.shape[1] * crop.shape[2] = 0
                 THEN {ends(Raise("ValueError"), FALSE)}
                 ELSE IF rgb_prim.kind = "raise" THEN {ends(rgb_prim, FALSE)}
                 ELSE IF crop_prim.kind = "raise"
                 THEN {ends(crop_prim, FALSE)}
                 ELSE IF crop.shape # mask_a.shape
                 THEN {ends(Raise("ValueError"), FALSE)}
                 ELSE LET ph == PhaseShifts(
                                    PrimaryMask(rgb_labs, rgb_prim.value),
                                    PrimaryMask(crop_labs, crop_prim.value))
                      IN  {ends(Return(Corrected(rough.value, sh)),
                                ph.pinned) : sh \in ph.shifts}

\* a target of zeros with the reference placed so that the crop at the
\* anchor <<x, y>> is the reference
Placed(mask_a, h, w, anchor) ==
    LET r0 == anchor[2] - mask_a.shape[1] \div 2
        c0 == anchor[1] - mask_a.shape[2] \div 2
    IN  Grid(h, w,
             [p \in Idx(h, w) |->
                IF /\ p[1] >= r0 /\ p[1] < r0 + mask_a.shape[1]
                   /\ p[2] >= c0 /\ p[2] < c0 + mask_a.shape[2]
                THEN mask_a.px[<<p[1] - r0, p[2] - c0>>]
                ELSE 0])

\* the anchors at which a reference of this shape fits in an h x w target
FittingAnchors(shape, h, w) ==
    {a \in (0 .. w) \X (0 .. h) :
        /\ a[2] - shape[1] \div 2 >= 0
        /\ a[2] - shape[1] \div 2 + shape[1] <= h
        /\ a[1] - shape[2] \div 2 >= 0
        /\ a[1] - shape[2] \div 2 + shape[2] <= w}

\* a reference whose object keeps a margin of one pixel to every side
CentredBlock ==
    Grid(4, 4, [p \in Idx(4, 4) |->
                  IF p[1] \in {1, 2} /\ p[2] \in {1, 2} THEN 1 ELSE 0])

\* the references of the model: the small masks that hold an object, and
\* the centred block
References ==
    {m \in Masks(RefCells) : \E p \in DOMAIN m.px : m.px[p] = 1}
        \cup {CentredBlock}

InitRegister ==
    /\ \E mask_a \in References, h \in 2 .. RegSide, w \in 2 .. RegSide :
          \E known \in FittingAnchors(mask_a.shape, h, w) :
             rc \in [pc : {"call"},
                     mask_a : {mask_a},
                     full_image : {Placed(mask_a, h, w, known)},
                     known : {known},
                     step : 1 .. MaxStep,
                     rough_cen : {None},
                     pinned : {FALSE},
                     out : {None}]
    /\ mm = Idle
    /\ wk = Idle
    /\ sg = Idle
    /\ co = Idle
    /\ ut = Idle
    /\ bt = Idle

OverlapCrop ==
    /\ rc.pc = "call"
    /\ \E end \in OverlapCropMasks(rc.mask_a, rc.full_image, rc.step) :
          rc' = [rc EXCEPT !.pc = "done",
                           !.rough_cen = end.rough_cen,
                           !.pinned = end.pinned,
                           !.out = end.out]
    /\ UNCHANGED <<mm, wk, sg, co, ut, bt>>

NextRegister == OverlapCrop

SpecRegister == InitRegister /\ [][NextRegister]_vars

(***************************************************************************)
(* rough_crop on reference masks of any height and width                   *)
(***************************************************************************)
AnyRefCells == 4
AnyTargetCells == 6

\* reference rasters of one row or column and more, of at most maxcells
\* pixels: np.ndarray shapes of odd and of even size
AnyShapes(maxcells) ==
    {s \in (1 .. maxcells) \X (1 .. maxcells) : s[1] * s[2] <= maxcells}

InitRoughAny ==
    /\ rc \in [pc : {"call"},
               mask_a : UNION {BinGrids(s[1], s[2]) :
                                  s \in AnyShapes(AnyRefCells)},
               mask_b : Masks(AnyTargetCells),
               step : 1 .. MaxStep, out : {None}]
    /\ mm = Idle
    /\ wk = Idle
    /\ sg = Idle
    /\ co = Idle
    /\ ut = Idle
    /\ bt = Idle

NextRoughAny == RoughCrop

SpecRoughAny == InitRoughAny /\ [][NextRoughAny]_vars

(***************************************************************************)
(* shw_segmentation on histograms whose peaks lie closer than distance     *)
(***************************************************************************)
MaxExtra == 2

\* (bg_mod, fg_mod) in hundredths, both inside [0, 1]: the defaults and
\* the two ends of the interval
UnitModPairs == {<<15, 20>>, <<100, 100>>, <<100, 0>>}

RECURSIVE Repeat(_, _)
Repeat(v, n) == IF n = 0 THEN <<>> ELSE <<v>> \o Repeat(v, n - 1)

\* one row of pixels, given as <<value, count>> pairs
RowImage(pairs) ==
    LET row == Flatten([k \in 1 .. Len(pairs) |->
                           Repeat(pairs[k][1], pairs[k][2])])
    IN  Grid(1, Len(row), [p \in Idx(1, Len(row)) |-> row[p[2] + 1]])

\* compound Sobel channels whose values span 0 .. 100, so that bin i holds
\* the pixels of value i: one pixel at 0, up to MaxExtra at 1, one at each
\* of 2 .. 10 with `extra` more at value `at`, up to MaxExtra at 11, one
\* pixel at `gap` and one at 100
CloseImages ==
    {RowImage(<<<<0, 1>>, <<1, k1>>>>
              \o [v \in 1 .. 9 |->
                    <<v + 1, IF v + 1 = at THEN 1 + extra ELSE 1>>]
              \o <<<<11, k2>>, <<gap, 1>>, <<100, 1>>>>) :
        k1 \in 0 .. MaxExtra, k2 \in 1 .. MaxExtra,
        at \in 2 .. 10, extra \in 0 .. 1, gap \in {13, 40}}

InitShwClose ==
    /\ sg \in [pc : {"call"}, comp_sob : CloseImages, mods : UnitModPairs,
               max_i : {None}, min_i : {None}, markers : {None},
               out : {None}]
    /\ mm = Idle
    /\ rc = Idle
    /\ wk = Idle
    /\ co = Idle
    /\ ut = Idle
    /\ bt = Idle

SpecShwClose == InitShwClose /\ [][NextShw]_vars

(***************************************************************************)
(* utils.threshold_between with bounds given and not given, and with both  *)
(* values of and_mask                                                      *)
(***************************************************************************)
BtwPix == 2

\* x_mask, y_mask, z_mask and their combination
threshold_between_mask(image, low, high, and_mask) ==
    LET channel(k) == {image.px[p][k] : p \in DOMAIN image.px}
        lo == [k \in 1 .. 3 |->
                 IF NotGiven(low[k]) THEN QMin(channel(k)) ELSE low[k]]
        hi == [k \in 1 .. 3 |->
                 IF NotGiven(high[k]) THEN QMax(channel(k)) ELSE high[k]]
        in_mask(p, k) == /\ QLe(lo[k], image.px[p][k])
                         /\ QLe(image.px[p][k], hi[k])
    IN  Grid(image.shape[1], image.shape[2],
             [p \in DOMAIN image.px |->
                 IF and_mask THEN \A k \in 1 .. 3 : in_mask(p, k)
                 ELSE \E k \in 1 .. 3 : in_mask(p, k)])

\* the values of the first channel and of the two other channels
BtwFirst == {<<-1, 2>>, <<0, 1>>, <<1, 2>>}
BtwOther == {<<0, 1>>, <<1, 2>>}

BtwImages ==
    {Grid(1, BtwPix, f) :
        f \in [Idx(1, BtwPix) -> BtwFirst \X BtwOther \X BtwOther]}

\* a bound is left out (None), given as 0 or given as 0.5
BtwBounds ==
    ({None, <<0, 1>>, <<1, 2>>}) \X ({None, <<0, 1>>})
        \X ({None, <<0, 1>>})

InitBetween ==
    /\ ut \in [pc : {"call"}, image : BtwImages,
               low : BtwBounds, high : BtwBounds, and_mask : BOOLEAN,
               out : {None}]
    /\ mm = Idle
    /\ rc = Idle
    /\ wk = Idle
    /\ sg = Idle
    /\ co = Idle
    /\ bt = Idle

ThresholdBetween ==
    /\ ut.pc = "call"
    /\ ut' = [ut EXCEPT
                !.pc = "done",
                !.out = threshold_between_mask(ut.image, ut.low, ut.high,
                                               ut.and_mask)]
    /\ UNCHANGED <<mm, rc, wk, sg, co, bt>>

NextBetween == ThresholdBetween

SpecBetween == InitBetween /\ [][NextBetween]_vars

(***************************************************************************)
(* segment.multichannel_threshold                                          *)
(***************************************************************************)
MulPix == 2
MulLevels == 2

\* np.invert on an integer array: the bitwise complement of a signed
\* integer v is -v - 1
invert(v) == 0 - v - 1

\* mask = np.ones(...); mask[channel < th] = 0 for each channel;
\* mask.astype(int); np.invert(mask) when inverse
multichannel_threshold(multi_ch_im, th, inverse) ==
    LET mask == [p \in DOMAIN multi_ch_im.px |->
                    IF \E k \in 1 .. 3 : multi_ch_im.px[p][k] < th[k]
                    THEN 0 ELSE 1]
    IN  Grid(multi_ch_im.shape[1], multi_ch_im.shape[2],
             [p \in DOMAIN multi_ch_im.px |->
                 IF inverse THEN invert(mask[p]) ELSE mask[p]])

\* channel values and thresholds on one scale, 0 .. MulLevels - 1
MulValues == 0 .. MulLevels - 1

InitMulti ==
    /\ ut \in [pc : {"call"},
               multi_ch_im :
                   {Grid(1, MulPix, f) :
                       f \in [Idx(1, MulPix) ->
                                 MulValues \X MulValues \X MulValues]},
               th : MulValues \X MulValues \X MulValues,
               inverse : BOOLEAN,
               out : {None}]
    /\ mm = Idle
    /\ rc = Idle
    /\ wk = Idle
    /\ sg = Idle
    /\ co = Idle
    /\ bt = Idle

MultichannelThreshold ==
    /\ ut.pc = "call"
    /\ ut' = [ut EXCEPT
                !.pc = "done",
                !.out = multichannel_threshold(ut.multi_ch_im, ut.th,
                                               ut.inverse)]
    /\ UNCHANGED <<mm, rc, wk, sg, co, bt>>

NextMulti == MultichannelThreshold

SpecMulti == InitMulti /\ [][NextMulti]_vars

(***************************************************************************)
(* segment.barb_thresh and segment.barb_hue                                *)
(***************************************************************************)
BarbPix == 4
Div == 3

RECURSIVE GCD(_, _)
GCD(a, b) == IF b = 0 THEN a ELSE GCD(b, a % b)

\* a rational in lowest terms
QNorm(a) ==
    IF a[1] = 0 THEN <<0, 1>>
    ELSE LET g == GCD(IF a[1] < 0 THEN 0 - a[1] ELSE a[1], a[2])
         IN  <<a[1] \div g, a[2] \div g>>
QLt(a, b) == a[1] * b[2] < b[1] * a[2]
\* a / b for b > 0
QDiv(a, b) == QNorm(<<a[1] * b[2], a[2] * b[1]>>)

\* utils.multichannel_mask: a copy of the image with every channel
\* multiplied by mask.astype(image.dtype), the image being uint8
multichannel_mask(image, mask) ==
    Grid(image.shape[1], image.shape[2],
         [p \in DOMAIN image.px |->
             <<(image.px[p][1] * mask.px[p]) % 256,
               (image.px[p][2] * mask.px[p]) % 256,
               (image.px[p][3] * mask.px[p]) % 256>>])

\* color.rgb2hsv(image)[:, :, 0]
HueChannel(image) ==
    Stored([p \in DOMAIN image.px |-> QNorm(rgb2hsv(image.px[p])[1])],
           DOMAIN image.px)

\* utils.increase_contrast on a channel of fractions
increase_contrast_hue(im_channel) ==
    LET values == {im_channel[p] : p \in DOMAIN im_channel}
        ch_min == QMin(values)
        ch_max == QMax(values)
    IN  IF QEq(ch_max, ch_min) THEN Raise("ValueError")
        ELSE Return(Stored([p \in DOMAIN im_channel |->
                              QDiv(QNorm(QSub(im_channel[p], ch_min)),
                                   QNorm(QSub(ch_max, ch_min)))],
                           DOMAIN im_channel))

\* np.histogram(a, bins=100): the first and the last edge.  An empty array
\* is binned over (0, 1), an array of one value v over (v - 0.5, v + 0.5)
HistRange(a) ==
    LET values == {a[p] : p \in DOMAIN a}
    IN  IF values = {} THEN <<Q(0, 1), Q(1, 1)>>
        ELSE IF QEq(QMin(values), QMax(values))
        THEN <<QNorm(QSub(QMin(values), <<1, 2>>)),
               QNorm(QAdd(QMin(values), <<1, 2>>))>>
        ELSE <<QMin(values), QMax(values)>>

\* bins[i] = first + i * (last - first) / 100
HistEdge(range, i) ==
    QNorm(QAdd(range[1],
               QDiv(<<i * QNorm(QSub(range[2], range[1]))[1],
                      QNorm(QSub(range[2], range[1]))[2]>>, <<NBins, 1>>)))

\* the bin of x: the last bin includes the last edge
HistBin(range, x) ==
    IF QEq(x, range[2]) THEN NBins - 1
    ELSE LET r == QDiv(QNorm(QSub(x, range[1])),
                       QNorm(QSub(range[2], range[1])))
         IN  (NBins * r[1]) \div r[2]

\* values of np.histogram(a, bins=100), bin 0 first
HistCounts(a) ==
    With(HistRange(a), LAMBDA range :
    With(Stored([p \in DOMAIN a |-> HistBin(range, a[p])], DOMAIN a),
         LAMBDA bin :
        Array([i \in 0 .. NBins - 1 |->
                 Cardinality({p \in DOMAIN a : bin[p] = i})], 0, NBins)))

\* np.argmax(values): the first bin of maximal count
ArgMax(values) ==
    Min({i \in 0 .. NBins - 1 :
            \A j \in 0 .. NBins - 1 : values[j + 1] <= values[i + 1]})

\* values > bound, where bound is 0.2 * val_max for a peak bin at or below
\* 0.4 and 0.5 * val_max otherwise: the bins above the bound
OverBound(values, bin_max, val_max) ==
    {i \in 0 .. NBins - 1 :
        10 * values[i + 1] > (IF QLe(bin_max, <<2, 5>>) THEN 2 ELSE 5)
                                 * val_max}

\* np.where(values == ref_val)[0][0]
FirstWithCount(values, ref_val) ==
    Min({i \in 0 .. NBins - 1 : values[i + 1] = ref_val})

\* barb_thresh: the threshold and the local variables it is made from;
\* values[values > bound][-1] raises IndexError when no bin is above the
\* bound
barb_thresh(im_channel, div) ==
    With(HistRange(im_channel), LAMBDA range :
    With(HistCounts(im_channel), LAMBDA values :
    With(ArgMax(values), LAMBDA peak_i :
    With(OverBound(values, HistEdge(range, peak_i), values[peak_i + 1]),
         LAMBDA over :
        IF over = {}
        THEN [kind |-> "raise", value |-> "IndexError", values |-> values,
              peak_i |-> peak_i, over |-> over, ref_i |-> None]
        ELSE
    With(FirstWithCount(values, values[Max(over) + 1]), LAMBDA ref_i :
        [kind |-> "return",
         value |-> QDiv(<<2 * HistEdge(range, ref_i)[1],
                          HistEdge(range, ref_i)[2]>>, <<div, 1>>),
         values |-> values, peak_i |-> peak_i, over |-> over,
         ref_i |-> ref_i])))))

\* the pixels of a channel where the mask is 1: hue_con[bg_mask == 1]
Masked(channel, mask) ==
    Stored(channel, {p \in DOMAIN channel : mask.px[p] = 1})

\* barb_hue: how it ends and the local variables it made: hue_con, the
\* locals of barb_thresh and healthy_mask, None for those never assigned;
\* reached names the last of them that was assigned
barb_hue(image, bg_mask, div) ==
    With(increase_contrast_hue(
             HueChannel(multichannel_mask(image, bg_mask))),
         LAMBDA hue_con :
        IF hue_con.kind = "raise"
        THEN [reached |-> "hue", hue_con |-> None, thresh |-> None,
              healthy_mask |-> None, out |-> Raise(hue_con.value)]
        ELSE
    With(barb_thresh(Masked(hue_con.value, bg_mask), div), LAMBDA thresh :
        IF thresh.kind = "raise"
        THEN [reached |-> "hue_con", hue_con |-> hue_con.value,
              thresh |-> thresh, healthy_mask |-> None,
              out |-> Raise(thresh.value)]
        ELSE
    With(RemoveSmallHoles(
             Grid(image.shape[1], image.shape[2],
                  [p \in DOMAIN image.px |->
                      IF QLt(thresh.value, hue_con.value[p])
                      THEN 1 ELSE 0]),
             (image.shape[1] + image.shape[2]) \div 200),
         LAMBDA healthy_mask :
        [reached |-> "healthy_mask", hue_con |-> hue_con.value,
         thresh |-> thresh, healthy_mask |-> healthy_mask,
         out |-> Return(Grid(image.shape[1], image.shape[2],
                             merge_masks(bg_mask.px, healthy_mask.px,
                                         "int")))])))

\* the colours a pixel of the RGB image takes: a green of hue 0.3, a
\* brown of hue 0.05 and a yellow of hue 1/6
BarbPalette == {<<51, 255, 0>>, <<100, 30, 0>>, <<255, 255, 0>>}

BarbShapes ==
    {sh \in (1 .. BarbPix) \X (1 .. BarbPix) :
        sh[1] * sh[2] = BarbPix /\ sh[1] <= sh[2]}

InitBarb ==
    /\ \E sh \in BarbShapes :
          ut \in [pc : {"call"},
                  image : {Grid(sh[1], sh[2], f) :
                              f \in [Idx(sh[1], sh[2]) -> BarbPalette]},
                  bg_mask : BinGrids(sh[1], sh[2]),
                  locals : {None}]
    /\ mm = Idle
    /\ rc = Idle
    /\ wk = Idle
    /\ sg = Idle
    /\ co = Idle
    /\ bt = Idle

BarbHue ==
    /\ ut.pc = "call"
    /\ ut' = [ut EXCEPT !.pc = "done",
                        !.locals = barb_hue(ut.image, ut.bg_mask, Div)]
    /\ UNCHANGED <<mm, rc, wk, sg, co, bt>>

NextBarb == BarbHue

SpecBarb == InitBarb /\ [][NextBarb]_vars

(***************************************************************************)
(* barb_hue on a foreground of two hue clusters                            *)
(***************************************************************************)
MaxTens == 2
MaxSpread == 3
MaxMasked == 2

\* a channel value kept inside uint8
Clamp(v) == IF v < 0 THEN 0 ELSE IF v > 255 THEN 255 ELSE v

\* pixel j of n green pixels around hue 0.3: (50, 250, 0) has hue 0.3 and
\* one unit of red moves the hue by 1/1500
GreenPixel(j, n, spread) == <<Clamp(50 + 2 * spread * (j - n \div 2)), 250, 0>>

\* pixel j of n brown pixels around hue 0.05: (100, 30, 0) has hue 0.05
\* and one unit of green moves the hue by 1/600
BrownPixel(j, n, spread) == <<100, Clamp(30 + spread * (j - n \div 2)), 0>>

\* a row of 7 * tens pixels around hue 0.3, 3 * tens pixels around hue 0.05
\* and `masked` pixels outside the mask
ClusterRow(tens, green_spread, brown_spread, masked) ==
    [j \in 1 .. 7 * tens |-> GreenPixel(j, 7 * tens, green_spread)]
    \o [j \in 1 .. 3 * tens |-> BrownPixel(j, 3 * tens, brown_spread)]
    \o [j \in 1 .. masked |-> <<51, 255, 0>>]

InitClusters ==
    /\ \E tens \in 1 .. MaxTens, green_spread \in 0 .. MaxSpread,
          brown_spread \in 0 .. MaxSpread, masked \in 0 .. MaxMasked :
          LET row == ClusterRow(tens, green_spread, brown_spread, masked)
          IN  ut = [pc |-> "call",
                    image |-> Grid(1, Len(row),
                                   [p \in Idx(1, Len(row)) |->
                                       row[p[2] + 1]]),
                    bg_mask |-> Grid(1, Len(row),
                                     [p \in Idx(1, Len(row)) |->
                                         IF p[2] < 10 * tens
                                         THEN 1 ELSE 0]),
                    locals |-> None]
    /\ mm = Idle
    /\ rc = Idle
    /\ wk = Idle
    /\ sg = Idle
    /\ co = Idle
    /\ bt = Idle

SpecClusters == InitClusters /\ [][NextBarb]_vars

(***************************************************************************)
(* Arrays by reference: the grids of a caller and the grids a stage makes  *)
(***************************************************************************)
FramePix == 2

\* a new array holding value: the heap grown by one and the reference of
\* the new array
NewArray(heap, value) ==
    [heap |-> Append(heap, value), ref |-> Len(heap) + 1]

\* a second name for the array behind ref
alias(heap, ref) == [heap |-> heap, ref |-> ref]

\* a.copy(): a new array with the values of a
copy(heap, ref) == NewArray(heap, heap[ref])

\* a.astype(dtype): a new array, numpy copying by default
astype(heap, ref, dtype) ==
    NewArray(heap,
             Grid(heap[ref].shape[1], heap[ref].shape[2],
                  Stored([p \in DOMAIN heap[ref].px |->
                            Cast(dtype, heap[ref].px[p])],
                         DOMAIN heap[ref].px)))

\* a[...] = value, a *= b: the array behind ref is overwritten
SetItem(heap, ref, value) == [heap EXCEPT ![ref] = value]

StoredGrid(g) == Grid(g.shape[1], g.shape[2], Stored(g.px, DOMAIN g.px))

\* utils.multichannel_mask: mask = mask.astype(image.dtype);
\* image = image.copy(); image[:, :, k] *= mask; return image
multichannel_mask_refs(heap, image, mask) ==
    With(astype(heap, mask, "uint8"), LAMBDA m :
    With(copy(m.heap, image), LAMBDA im :
        [heap |-> SetItem(im.heap, im.ref,
                          StoredGrid(multichannel_mask(im.heap[im.ref],
                                                       im.heap[m.ref]))),
         out |-> Return(im.ref)]))

\* utils.canny_labs: canny_f is a new array; mask = mask.copy();
\* mask[canny_f == 1] = 0; labels and their dilation are new arrays
canny_labs_refs(heap, image, mask, canny_f) ==
    With(NewArray(heap,
                  Grid(heap[image].shape[1], heap[image].shape[2],
                       Stored([p \in DOMAIN heap[image].px |->
                                 IF p \in canny_f THEN 1 ELSE 0],
                              DOMAIN heap[image].px))),
         LAMBDA edges :
    With(copy(edges.heap, mask), LAMBDA m :
    With(SetItem(m.heap, m.ref,
                 Grid(m.heap[m.ref].shape[1], m.heap[m.ref].shape[2],
                      Stored([p \in DOMAIN m.heap[m.ref].px |->
                                IF m.heap[edges.ref].px[p] = 1 THEN 0
                                ELSE m.heap[m.ref].px[p]],
                             DOMAIN m.heap[m.ref].px))),
         LAMBDA cut :
    With(NewArray(cut, Label(cut[m.ref], 1)), LAMBDA labels :
    With(NewArray(labels.heap,
                  Dilation(labels.heap[labels.ref], Disk(1))),
         LAMBDA dilated :
        [heap |-> dilated.heap, out |-> Return(dilated.ref)])))))

\* the values of utils.paint_col: color_tuple where the mask is 0
paint_col(image, mask, color_tuple) ==
    Grid(image.shape[1], image.shape[2],
         Stored([p \in DOMAIN image.px |->
                   IF mask.px[p] = 0 THEN color_tuple ELSE image.px[p]],
                DOMAIN image.px))

\* utils.paint_col: image = image.copy();
\* image[:, :, k][mask == 0] = color_tuple[k]; return image
paint_col_refs(heap, image, mask, color_tuple) ==
    With(copy(heap, image), LAMBDA im :
        [heap |-> SetItem(im.heap, im.ref,
                          paint_col(im.heap[im.ref], im.heap[mask],
                                    color_tuple)),
         out |-> Return(im.ref)])

\* segment.merge_masks: substep is a new array, comb_mask a new array of
\* zeros that the three assignments fill
merge_masks_refs(heap, bg_mask, pheno_mask) ==
    With(NewArray(heap,
                  Grid(heap[bg_mask].shape[1], heap[bg_mask].shape[2],
                       Stored(substep(heap[bg_mask].px,
                                      heap[pheno_mask].px),
                              DOMAIN heap[bg_mask].px))),
         LAMBDA sub :
    With(NewArray(sub.heap,
                  Grid(heap[bg_mask].shape[1], heap[bg_mask].shape[2],
                       Stored([p \in DOMAIN heap[bg_mask].px |-> 0],
                              DOMAIN heap[bg_mask].px))),
         LAMBDA comb_mask :
        [heap |-> SetItem(comb_mask.heap, comb_mask.ref,
                          Grid(heap[bg_mask].shape[1],
                               heap[bg_mask].shape[2],
                               Stored(merge_masks(heap[bg_mask].px,
                                                  heap[pheno_mask].px,
                                                  "int"),
                                      DOMAIN heap[bg_mask].px))),
         out |-> Return(comb_mask.ref)]))

\* segment.barb_hue: image is rebound to the array multichannel_mask
\* returns; hue, hue_con, healthy_mask and bg_mask.astype(int) are new
\* arrays; the result is the array merge_masks returns
barb_hue_refs(heap, image, bg_mask) ==
    With(multichannel_mask_refs(heap, image, bg_mask), LAMBDA masked :
    With(barb_hue(heap[image], heap[bg_mask], Div), LAMBDA locals :
    With(NewArray(masked.heap,
                  Grid(heap[image].shape[1], heap[image].shape[2],
                       HueChannel(masked.heap[masked.out.value]))),
         LAMBDA hue :
        IF locals.reached = "hue"
        THEN [heap |-> hue.heap, out |-> locals.out]
        ELSE
    With(NewArray(hue.heap,
                  Grid(heap[image].shape[1], heap[image].shape[2],
                       locals.hue_con)),
         LAMBDA hue_con :
        IF locals.reached = "hue_con"
        THEN [heap |-> hue_con.heap, out |-> locals.out]
        ELSE
    With(NewArray(hue_con.heap, StoredGrid(locals.healthy_mask)),
         LAMBDA healthy_mask :
    With(astype(healthy_mask.heap, bg_mask, "int"), LAMBDA bg_int :
        merge_masks_refs(bg_int.heap, bg_int.ref, healthy_mask.ref)))))))

\* the colours paint_col is given: white, as slic_central does, and black
PaintColours == {<<255, 255, 255>>, <<0, 0, 0>>}

\* the caller holds an RGB image (reference 1), a binary mask (reference
\* 2) and a second plane of zeros and ones (reference 3); before keeps
\* their values at the call
InitFrame ==
    /\ \E image \in {Grid(1, FramePix, f) :
                        f \in [Idx(1, FramePix) -> BarbPalette]},
          mask \in BinGrids(1, FramePix),
          plane \in BinGrids(1, FramePix) :
          ut = [pc |-> "caller", heap |-> <<image, mask, plane>>,
                before |-> <<image, mask, plane>>, stage |-> None,
                out |-> None]
    /\ mm = Idle
    /\ rc = Idle
    /\ wk = Idle
    /\ sg = Idle
    /\ co = Idle
    /\ bt = Idle

Returned(stage, r) ==
    [ut EXCEPT !.pc = "returned", !.stage = stage, !.heap = r.heap,
               !.out = r.out]

CallMultichannelMask ==
    /\ ut.pc = "caller"
    /\ ut' = Returned("multichannel_mask",
                      multichannel_mask_refs(ut.heap, 1, 2))
    /\ UNCHANGED <<mm, rc, wk, sg, co, bt>>

CallCannyLabs ==
    /\ ut.pc = "caller"
    /\ \E canny_f \in SUBSET DOMAIN ut.heap[3].px :
          ut' = Returned("canny_labs",
                         canny_labs_refs(ut.heap, 3, 2, canny_f))
    /\ UNCHANGED <<mm, rc, wk, sg, co, bt>>

CallPaintCol ==
    /\ ut.pc = "caller"
    /\ \E color_tuple \in PaintColours :
          ut' = Returned("paint_col",
                         paint_col_refs(ut.heap, 1, 2, color_tuple))
    /\ UNCHANGED <<mm, rc, wk, sg, co, bt>>

CallMergeMasks ==
    /\ ut.pc = "caller"
    /\ ut' = Returned("merge_masks", merge_masks_refs(ut.heap, 2, 3))
    /\ UNCHANGED <<mm, rc, wk, sg, co, bt>>

CallBarbHue ==
    /\ ut.pc = "caller"
    /\ ut' = Returned("barb_hue", barb_hue_refs(ut.heap, 1, 2))
    /\ UNCHANGED <<mm, rc, wk, sg, co, bt>>

NextFrame ==
    \/ CallMultichannelMask
    \/ CallCannyLabs
    \/ CallPaintCol
    \/ CallMergeMasks
    \/ CallBarbHue

SpecFrame == InitFrame /\ [][NextFrame]_vars

(***************************************************************************)
(* Properties of merge_masks                                               *)
(***************************************************************************)
MergeDone == mm.pc = "done"

\* C1: merge_masks(B, P) is 0 at every pixel where B is 0, whatever P is
\* at that pixel.
C1_MergeZeroOnBackground ==
    MergeDone =>
        \A p \in DOMAIN mm.bg_mask :
            mm.bg_mask[p] = 0 => mm.comb_mask[p] = 0

C1_Witness ==
    /\ MergeDone
    /\ \E p \in DOMAIN mm.bg_mask : mm.bg_mask[p] = 0 /\ mm.pheno_mask[p] = 1
    /\ \E p \in DOMAIN mm.bg_mask : mm.bg_mask[p] = 1

\* C2: merge_masks(B, P) is 1 at every pixel where B is 1 and P is 0, and
\* 2 at every pixel where B is 1 and P is 1.
C2_MergeLabelsAsDocumented ==
    MergeDone =>
        \A p \in DOMAIN mm.bg_mask :
            /\ (mm.bg_mask[p] = 1 /\ mm.pheno_mask[p] = 0)
                   => mm.comb_mask[p] = 1
            /\ (mm.bg_mask[p] = 1 /\ mm.pheno_mask[p] = 1)
                   => mm.comb_mask[p] = 2

(***************************************************************************)
(* Properties of rough_crop, stated on the pixels of the two masks         *)
(***************************************************************************)
RoughDone == rc.pc = "done"
RoughReturned == RoughDone /\ rc.out.result.kind = "return"

\* the target pixel under reference pixel p when the reference is centred
\* on the anchor <<col, row>>
Under(anchor, p) ==
    <<anchor[2] - rc.mask_a.shape[1] \div 2 + p[1],
      anchor[1] - rc.mask_a.shape[2] \div 2 + p[2]>>

RefIdx == Idx(rc.mask_a.shape[1], rc.mask_a.shape[2])
RefPixels == rc.mask_a.shape[1] * rc.mask_a.shape[2]

Matching(anchor) ==
    Cardinality({p \in RefIdx :
                    /\ Under(anchor, p) \in DOMAIN rc.mask_b.px
                    /\ rc.mask_b.px[Under(anchor, p)] = rc.mask_a.px[p]})

ExactAt(anchor) == Matching(anchor) = RefPixels

\* the anchors of the coarse-search grid: row = a_h // 2 + i * step up to
\* b_h - a_h // 2, column likewise
GridAnchors ==
    {an \in (0 .. rc.mask_b.shape[2]) \X (0 .. rc.mask_b.shape[1]) :
        /\ an[2] >= rc.mask_a.shape[1] \div 2
        /\ an[2] <= rc.mask_b.shape[1] - rc.mask_a.shape[1] \div 2
        /\ (an[2] - rc.mask_a.shape[1] \div 2) % rc.step = 0
        /\ an[1] >= rc.mask_a.shape[2] \div 2
        /\ an[1] <= rc.mask_b.shape[2] - rc.mask_a.shape[2] \div 2
        /\ (an[1] - rc.mask_a.shape[2] \div 2) % rc.step = 0}

\* raster-scan order: lower row first, then lower column
Before(an1, an2) ==
    an1[2] < an2[2] \/ (an1[2] = an2[2] /\ an1[1] < an2[1])

BestMatching == Max({Matching(an) : an \in GridAnchors})

ShwDone == sg.pc = "done"
ShwReturned == ShwDone /\ sg.out.kind = "return"

\* C3: every pixel of a mask returned by shw_segmentation is 0 or 1, also
\* when the marker grid holds no foreground seed, and every pixel of a mask
\* returned by merge_masks is 0, 1 or 2.
C3_LabelsCanonical ==
    /\ ShwReturned =>
          \A p \in DOMAIN sg.out.value.px : sg.out.value.px[p] \in {0, 1}
    /\ MergeDone =>
          \A p \in DOMAIN mm.comb_mask : mm.comb_mask[p] \in {0, 1, 2}

C3_Witness ==
    /\ ShwReturned
    /\ \A p \in DOMAIN sg.markers.px : sg.markers.px[p] # 2
    /\ \E p \in DOMAIN sg.markers.px : sg.markers.px[p] = 0

CannyReturned == co.pc = "done" /\ co.out.kind = "return"

\* C4: the mask canny_central_ob returns is a subset of the mask it was
\* given: no pixel that is 0 in the input mask is foreground in the output.
C4_CentralObjectInsideMask ==
    CannyReturned =>
        \A p \in DOMAIN co.mask.px :
            co.mask.px[p] = 0 => co.out.value.px[p] = 0

\* C5: the anchor rough_crop returns has an overlap greater than or equal
\* to the overlap of every other step-aligned anchor.
C5_RoughOptimumIsMaximal ==
    RoughReturned =>
        /\ rc.out.result.value \in GridAnchors
        /\ \A an \in GridAnchors :
               Matching(an) <= Matching(rc.out.result.value)

C5_Witness ==
    /\ RoughReturned
    /\ \E an1, an2 \in GridAnchors :
          /\ Before(an1, an2)
          /\ Matching(an1) > Matching(an2)
          /\ \A an \in GridAnchors : an # an2 => Before(an, an2)
          /\ rc.out.result.value = an1

\* C6 as stated: among the anchors sharing the maximum overlap, rough_crop
\* returns the one met first in raster-scan order.
C6_RoughTieFirst ==
    RoughReturned =>
        \A an \in GridAnchors :
            (Matching(an) = BestMatching /\ an # rc.out.result.value)
                => Before(rc.out.result.value, an)

\* C6 amended: among the anchors sharing the maximum overlap, rough_crop
\* returns the one met last in raster-scan order (highest row, then
\* highest column).
C6_RoughTieLast ==
    RoughReturned =>
        \A an \in GridAnchors :
            (Matching(an) = BestMatching /\ an # rc.out.result.value)
                => Before(an, rc.out.result.value)

C6_Witness ==
    /\ RoughReturned
    /\ \E an1, an2 \in GridAnchors :
          /\ an1[2] < an2[2]
          /\ an1[1] > an2[1]
          /\ Matching(an1) = BestMatching
          /\ Matching(an2) = BestMatching
          /\ rc.out.result.value = an2
    /\ \E an \in GridAnchors : Matching(an) < BestMatching

\* the reference equals the target on some window of the target
IsSubRegion ==
    \E r0 \in 0 .. rc.mask_b.shape[1] - rc.mask_a.shape[1],
       c0 \in 0 .. rc.mask_b.shape[2] - rc.mask_a.shape[2] :
        \A p \in RefIdx :
            rc.mask_b.px[<<r0 + p[1], c0 + p[2]>>] = rc.mask_a.px[p]

\* C7 as stated: for a reference that is an exact sub-region of the
\* target, the returned anchor has overlap fraction 1.0.
C7_SubRegionOverlapOne ==
    (RoughDone /\ IsSubRegion) =>
        /\ rc.out.result.kind = "return"
        /\ ExactAt(rc.out.result.value)

\* C7 amended: for a reference that equals the target crop at one of the
\* step-aligned anchors the search visits, the returned anchor has overlap
\* fraction 1.0.
C7_VisitedCopyOverlapOne ==
    (RoughDone /\ \E an \in GridAnchors : ExactAt(an)) =>
        /\ rc.out.result.kind = "return"
        /\ ExactAt(rc.out.result.value)

C7_Witness ==
    /\ RoughReturned
    /\ rc.step = 2
    /\ \E an \in GridAnchors : ExactAt(an)
    /\ \E an \in GridAnchors : ~ExactAt(an)
    /\ \E p, q \in RefIdx : rc.mask_a.px[p] # rc.mask_a.px[q]

VisitsNone(rgb_shape) ==
    \/ FluorRows - rgb_shape[1] \div 2 < rgb_shape[1] \div 2
    \/ FluorCols - rgb_shape[2] \div 2 < rgb_shape[2] \div 2

Reported(k) == \E j \in 1 .. Len(wk.printed) : wk.printed[j] = <<"overlap", k>>
CropSavedFor(k) == \E j \in 1 .. Len(wk.saved) : wk.saved[j].rgb = k

\* C9: when the coarse search visits no anchor, registration of that image
\* pair ends in a reported failure: no anchor is returned and no crop is
\* produced for the pair.
C9_EmptySearchNoCrop ==
    wk.pc # "idle" =>
        \A k \in 1 .. Len(wk.outcomes) :
            (wk.outcomes[k].read /\ VisitsNone(wk.rgbs[k])) =>
                /\ wk.outcomes[k].out.kind = "raise"
                /\ Reported(k)
                /\ ~CropSavedFor(k)

\* C10: every crop saved from the padded raster has exactly 1500 rows and
\* 1500 columns.
C10_SavedCropFullSize ==
    wk.pc # "idle" =>
        \A j \in 1 .. Len(wk.saved) : wk.saved[j].shape = CropSize

\* C13: in fluor_cropper.worker, when reading the fluorescence raster or
\* overlap_crop fails for an RGB image, no crop is saved for that image, in
\* particular none cut at the anchor of an image processed before it.
C13_FailureSavesNoCrop ==
    (wk.pc # "idle" /\ wk.variant = "pool") =>
        \A k \in 1 .. Len(wk.outcomes) :
            (wk.outcomes[k].read /\ wk.outcomes[k].out.kind = "raise") =>
                ~CropSavedFor(k)

\* C14: in fluor_cropper_nmp.worker, once the fluorescence frame is read,
\* every RGB image paired with it is processed, also the images that come
\* after one whose registration failed: when the worker has returned, each
\* image has its crop saved or its own failure reported.
C14_LaterImagesProcessed ==
    (wk.pc = "returned" /\ wk.variant = "nmp" /\ wk.fm_im # Unbound) =>
        \A k \in 1 .. Len(wk.rgbs) : CropSavedFor(k) \/ Reported(k)

(***************************************************************************)
(* Properties of shw_segmentation                                          *)
(***************************************************************************)
\* the maxima and minima find_peaks reported for the histogram of the call
ShwMaxima == {sg.max_i[k] : k \in 1 .. Len(sg.max_i)}
ShwMinima == {sg.min_i[k] : k \in 1 .. Len(sg.min_i)}
MinimaAbove(i) == {m \in ShwMinima : m > i}

\* C15: when the histogram has fewer than two maxima, or no minimum above
\* the first maximum, shw_segmentation raises and returns no mask.
C15_NoThresholdRaises ==
    (ShwDone /\ (Cardinality(ShwMaxima) < 2
                   \/ MinimaAbove(Min(ShwMaxima)) = {})) =>
        /\ sg.out.kind = "raise"
        /\ sg.markers = None

C15_Witness ==
    /\ ShwDone
    /\ Cardinality(ShwMaxima) = 1
    /\ Cardinality(PixelValues(sg.comp_sob)) > 1
    /\ sg.out.kind = "raise"

\* the thresholds as the claim words them, in units of 1/20000
FirstMax == Edge200(sg.comp_sob, Min(ShwMaxima))
SecondMax == Edge200(sg.comp_sob, Min(ShwMaxima \ {Min(ShwMaxima)}))
FirstMinAbove == Edge200(sg.comp_sob, Min(MinimaAbove(Min(ShwMaxima))))
BgWorded == 100 * FirstMax + sg.mods[1] * (FirstMinAbove - FirstMax)
FgWorded == 100 * FirstMinAbove + sg.mods[2] * (SecondMax - FirstMinAbove)

\* C16 as stated: with the background threshold first_max + bg_mod x
\* (first_min_above - first_max) and the foreground threshold
\* first_min_above + fg_mod x (second_max - first_min_above), the marker
\* grid is 1 exactly at the pixels <= the background threshold, 2 exactly
\* at the pixels >= the foreground threshold and 0 elsewhere.
C16_MarkersExactlyByThreshold ==
    ShwReturned =>
        \A p \in DOMAIN sg.markers.px :
            LET v == 20000 * sg.comp_sob.px[p]
            IN  /\ sg.markers.px[p] = 1 <=> v <= BgWorded
                /\ sg.markers.px[p] = 2 <=> v >= FgWorded
                /\ sg.markers.px[p] = 0 <=> (v > BgWorded /\ v < FgWorded)

\* C16, amended: with the same thresholds, the marker grid is 2 exactly at
\* the pixels >= the foreground threshold, 1 exactly at the pixels <= the
\* background threshold that are below the foreground threshold, and 0
\* elsewhere.
C16_MarkersForegroundWins ==
    ShwReturned =>
        \A p \in DOMAIN sg.markers.px :
            LET v == 20000 * sg.comp_sob.px[p]
            IN  /\ sg.markers.px[p] = 2 <=> v >= FgWorded
                /\ sg.markers.px[p] = 1 <=> (v <= BgWorded /\ v < FgWorded)
                /\ sg.markers.px[p] = 0 <=> (v > BgWorded /\ v < FgWorded)

C16_Witness ==
    /\ ShwReturned
    /\ \E p \in DOMAIN sg.markers.px :
          /\ 20000 * sg.comp_sob.px[p] <= BgWorded
          /\ 20000 * sg.comp_sob.px[p] >= FgWorded
    /\ \E p \in DOMAIN sg.markers.px : sg.markers.px[p] = 1


(***************************************************************************)
(* Properties of centre_primary_label                                      *)
(***************************************************************************)
CentreDone == ut.pc = "done" /\ "lab_im" \in DOMAIN ut

\* the pixels of the radius x radius window around the centre pixel
\* (rows // 2, cols // 2) of the labelled grid
CentredWindow ==
    {p \in DOMAIN ut.lab_im.px :
        /\ p[1] >= ut.lab_im.shape[1] \div 2 - ut.radius \div 2
        /\ p[1] < ut.lab_im.shape[1] \div 2 + ut.radius \div 2
        /\ p[2] >= ut.lab_im.shape[2] \div 2 - ut.radius \div 2
        /\ p[2] < ut.lab_im.shape[2] \div 2 + ut.radius \div 2}

\* the window lies inside the grid
WindowInside ==
    /\ ut.lab_im.shape[1] \div 2 >= ut.radius \div 2
    /\ ut.lab_im.shape[2] \div 2 >= ut.radius \div 2
    /\ ut.lab_im.shape[1] \div 2 + ut.radius \div 2 <= ut.lab_im.shape[1]
    /\ ut.lab_im.shape[2] \div 2 + ut.radius \div 2 <= ut.lab_im.shape[2]

CountIn(W, l) == Cardinality({p \in W : ut.lab_im.px[p] = l})

WindowLabels == {ut.lab_im.px[p] : p \in CentredWindow} \ {ut.bg_label}

\* C18: on a grid of any shape whose central window lies inside it and
\* holds a non-background label, centre_primary_label returns the label
\* counted most often in that window, the lowest one on a tie, and never
\* bg_label
C18_CentralPlurality ==
    (CentreDone /\ WindowInside /\ WindowLabels # {}) =>
        /\ ut.out.kind = "return"
        /\ ut.out.value \in WindowLabels
        /\ \A m \in WindowLabels :
              \/ CountIn(CentredWindow, m) < CountIn(CentredWindow, ut.out.value)
              \/ /\ CountIn(CentredWindow, m) = CountIn(CentredWindow, ut.out.value)
                 /\ ut.out.value <= m


(***************************************************************************)
(* Properties of canny_central_ob's failure cases                          *)
(***************************************************************************)
CannyDone == co.pc = "done"

\* the pixels crop_region hands to centre_primary_label
CentralWindow(lab_im, radius) ==
    LET win == CropWindow(lab_im.shape,
                          <<lab_im.shape[1] \div 2, lab_im.shape[2] \div 2>>,
                          <<radius, radius>>)
    IN  {p \in DOMAIN lab_im.px :
            /\ p[1] >= win.rs /\ p[1] < win.rs + win.rl
            /\ p[2] >= win.cs /\ p[2] < win.cs + win.cl}

NoLabelIn(lab_im, radius) ==
    \A p \in CentralWindow(lab_im, radius) : lab_im.px[p] = 0

SingleValued(S) == \A a \in S, b \in S : QEq(a, b)

\* channel k of prim_area
PrimPlane(k) ==
    {co.locals.prim_area[p][k] : p \in DOMAIN co.locals.prim_area}

NoCentralLabel ==
    \/ NoLabelIn(co.locals.bg_labs, Radius)
    \/ /\ co.locals.reached # "bg_labs"
       /\ NoLabelIn(co.locals.canny_labelled, CentralArea)

Degenerate ==
    /\ co.locals.reached = "prim_area"
    /\ \E k \in 1 .. 3 : SingleValued(PrimPlane(k))

ContrastDone == ut.pc = "done" /\ "im_channel" \in DOMAIN ut

ChannelValues == {ut.im_channel.px[p] : p \in DOMAIN ut.im_channel.px}

\* C20: a channel with minimum m below its maximum M is returned with
\* every pixel equal to m at exactly 0, every pixel equal to M at exactly
\* 1 and every pixel within [0, 1]; a channel with m = M raises ValueError
C20_ContrastSpansUnit ==
    ContrastDone =>
        IF Min(ChannelValues) = Max(ChannelValues)
        THEN ut.out = Raise("ValueError")
        ELSE /\ ut.out.kind = "return"
             /\ ut.out.value.shape = ut.im_channel.shape
             /\ \A p \in DOMAIN ut.im_channel.px :
                   /\ ut.im_channel.px[p] = Min(ChannelValues)
                          => ut.out.value.px[p] = <<0, 1>>
                   /\ ut.im_channel.px[p] = Max(ChannelValues)
                          => /\ ut.out.value.px[p][1] = ut.out.value.px[p][2]
                             /\ ut.out.value.px[p][2] > 0
                   /\ QLe(<<0, 1>>, ut.out.value.px[p])
                   /\ QLe(ut.out.value.px[p], <<1, 1>>)

\* a channel whose minimum is above 0, with a value strictly between its
\* minimum and maximum
C20_Witness ==
    /\ ContrastDone
    /\ ut.out.kind = "return"
    /\ Min(ChannelValues) > 0
    /\ \E p \in DOMAIN ut.im_channel.px :
          /\ ut.im_channel.px[p] > Min(ChannelValues)
          /\ ut.im_channel.px[p] < Max(ChannelValues)


(***************************************************************************)
(* Properties of the batch scripts                                         *)
(***************************************************************************)
BatchRunning == bt.pc # "idle"

FailsAt(i) ==
    bt.files[i] \in {"read", "shw", "canny", "barb"} /\ bt.task[i] # "queued"

\* C12: the worker returns normally for an image that fails at reading,
\* shw_segmentation, canny_central_ob or barb_hue; no other image is left
\* out and main() does not end with the exception
C12_FailureStaysInWorker ==
    (BatchRunning /\ \E i \in DOMAIN bt.files : FailsAt(i)) =>
        /\ \A i \in DOMAIN bt.files :
              bt.task[i] \in {"queued", "returned"}
        /\ bt.pc # "traceback"


(***************************************************************************)
(* Properties of Exp_3_segmentation.shw_segmentation                       *)
(***************************************************************************)
Exp3Done == sg.pc = "done" /\ "hue" \in DOMAIN sg

ValidThresholds ==
    /\ Cardinality(ShwMaxima) >= 2
    /\ MinimaAbove(Min(ShwMaxima)) # {}

\* C17: with valid thresholds the call returns a binary mask, and its marker
\* grid is 2 at values >= the foreground threshold, 1 at the other pixels
\* whose value is <= the background threshold or whose hue is above 0.35,
\* and 0 elsewhere
C17_Exp3MarkersAndMask ==
    (Exp3Done /\ ValidThresholds) =>
        /\ sg.out.kind = "return"
        /\ \A p \in DOMAIN sg.out.value.px : sg.out.value.px[p] \in {0, 1}
        /\ \A p \in DOMAIN sg.comp_sob.px :
              LET v == 20000 * sg.comp_sob.px[p]
              IN  sg.markers.px[p] =
                      IF v >= FgWorded THEN 2
                      ELSE IF v <= BgWorded \/ sg.hue[p] > HueCutoff THEN 1
                      ELSE 0


(***************************************************************************)
(* Properties of overlap_crop on a placed reference                        *)
(***************************************************************************)
RegisterDone == rc.pc = "done" /\ "known" \in DOMAIN rc

Near(a, b) == a - b \in {-1, 0, 1}

\* the reference holds an object and background
ProperReference ==
    /\ \E p \in DOMAIN rc.mask_a.px : rc.mask_a.px[p] = 1
    /\ \E p \in DOMAIN rc.mask_a.px : rc.mask_a.px[p] = 0

\* C11: for a target holding the exact reference (an object on background)
\* at a known anchor, overlap_crop returns an anchor, and, whenever the
\* crop's object is the reference's object rolled, one within 1 px of the
\* known anchor in each coordinate
C11_RoundTripWithinOnePixel ==
    (RegisterDone /\ ProperReference) =>
        /\ rc.out.kind = "return"
        /\ rc.pinned => /\ Near(rc.out.value[1], rc.known[1])
                        /\ Near(rc.out.value[2], rc.known[2])

(***************************************************************************)
(* Properties of crop_region inside rough_crop                             *)
(***************************************************************************)
\* the crop taken at a visited anchor lies inside the target: no slice
\* bound is negative or beyond the target's edge
CropInside(anchor) ==
    /\ anchor[2] - rc.mask_a.shape[1] \div 2 >= 0
    /\ anchor[2] + rc.mask_a.shape[1] \div 2 <= rc.mask_b.shape[1]
    /\ anchor[1] - rc.mask_a.shape[2] \div 2 >= 0
    /\ anchor[1] + rc.mask_a.shape[2] \div 2 <= rc.mask_b.shape[2]

\* C28: for every anchor rough_crop visits and every reference mask shape,
\* odd or even, crop_region returns a crop inside the target that has
\* exactly the reference's shape, so that the overlap compares all
\* reference pixels element by element and does not raise.
C28_CropHasReferenceShape ==
    RoughDone =>
        \A i \in 1 .. Len(rc.out.visited) :
            /\ CropInside(rc.out.visited[i])
            /\ crop_region(rc.mask_b, rc.out.visited[i],
                           rc.mask_a.shape).shape = rc.mask_a.shape
            /\ rc.out.overlaps[i] # NoBroadcast

BatchParsed == bt.pc = "exit" /\ bt.script = "tipburn"

\* C29: in tipburn_segmentation, for every image whose stages all succeed,
\* segment_file has written the composite mask _comp.png before
\* parse_segmentations reads it, with or without the -d flag, so the
\* image's row of the pixel table holds its counts.
C29_CompositeWrittenBeforeParse ==
    /\ (bt.pc = "parse") =>
          \A i \in DOMAIN bt.files :
              bt.files[i] = "none" => "_comp" \in bt.saved[i]
    /\ BatchParsed =>
          \A i \in DOMAIN bt.files :
              bt.files[i] = "none" => bt.table[i] = "counts"

(***************************************************************************)
(* Properties of the thresholds of shw_segmentation                        *)
(***************************************************************************)
UnitMods == sg.mods[1] \in 0 .. 100 /\ sg.mods[2] \in 0 .. 100

\* C30: whenever shw_segmentation derives thresholds with bg_mod and
\* fg_mod in [0, 1], the second histogram maximum lies above the first
\* minimum that follows the first maximum, so the background threshold is
\* at most the foreground threshold and no pixel qualifies both as a
\* background seed and as a foreground seed.
C30_ThresholdsOrdered ==
    (ShwReturned /\ UnitMods) =>
        /\ SecondMax > FirstMinAbove
        /\ BgWorded <= FgWorded
        /\ \A p \in DOMAIN sg.comp_sob.px :
               ~(/\ 20000 * sg.comp_sob.px[p] <= BgWorded
                 /\ 20000 * sg.comp_sob.px[p] >= FgWorded)

(***************************************************************************)
(* Properties of threshold_between                                         *)
(***************************************************************************)
BetweenDone == ut.pc = "done" /\ "and_mask" \in DOMAIN ut

BtwChannel(k) == {ut.image.px[p][k] : p \in DOMAIN ut.image.px}

\* the bounds as the claim words them: the value supplied, 0 included, and
\* the channel's minimum or maximum for a bound left as None
LowWorded(k) == IF ut.low[k] = None THEN QMin(BtwChannel(k)) ELSE ut.low[k]
HighWorded(k) ==
    IF ut.high[k] = None THEN QMax(BtwChannel(k)) ELSE ut.high[k]

Between(p, k) ==
    /\ QLe(LowWorded(k), ut.image.px[p][k])
    /\ QLe(ut.image.px[p][k], HighWorded(k))

\* C27: for every explicitly supplied bound, 0 included, threshold_between
\* marks a pixel true exactly when each channel value (and_mask=True) or
\* at least one channel value (and_mask=False) lies between that channel's
\* low and high bound inclusive; only a bound left as None defaults to the
\* channel's minimum or maximum.
C27_ExplicitBoundsApply ==
    BetweenDone =>
        \A p \in DOMAIN ut.image.px :
            ut.out.px[p] <=> IF ut.and_mask
                             THEN \A k \in 1 .. 3 : Between(p, k)
                             ELSE \E k \in 1 .. 3 : Between(p, k)

(***************************************************************************)
(* Properties of multichannel_threshold                                    *)
(***************************************************************************)
MultiDone == ut.pc = "done" /\ "inverse" \in DOMAIN ut

BelowSome(p) == \E k \in 1 .. 3 : ut.multi_ch_im.px[p][k] < ut.th[k]

\* C26: multichannel_threshold returns a binary mask in both modes: with
\* inverse=False a pixel is 0 when any channel is below its threshold and
\* 1 otherwise; with inverse=True a pixel at or above all thresholds is 0
\* and every other pixel is 1; no value other than 0 and 1 appears.
C26_BinaryInBothModes ==
    MultiDone =>
        \A p \in DOMAIN ut.out.px :
            /\ ut.out.px[p] \in {0, 1}
            /\ ut.out.px[p] = 0 <=> (BelowSome(p) <=> ~ut.inverse)

(***************************************************************************)
(* Properties of barb_thresh and barb_hue                                  *)
(***************************************************************************)
BarbDone == ut.pc = "done" /\ "bg_mask" \in DOMAIN ut
BarbStretched == BarbDone /\ ut.locals.reached # "hue"
BarbThresholded == BarbDone /\ ut.locals.reached = "healthy_mask"

FgPixels == {p \in DOMAIN ut.bg_mask.px : ut.bg_mask.px[p] = 1}

\* the hue of a pixel of the image handed to barb_hue
RawHue(p) == QNorm(rgb2hsv(ut.image.px[p])[1])

FgHues == {RawHue(p) : p \in FgPixels}

\* C21: barb_hue stretches the hue with the minimum and the maximum hue of
\* the foreground pixels only: the lowest foreground hue maps to 0 and the
\* highest to 1, and the stretch fails exactly when all foreground hues
\* are equal.
C21_StretchOverForeground ==
    (BarbDone /\ FgPixels # {}) =>
        /\ ut.locals.reached = "hue" <=> Cardinality(FgHues) = 1
        /\ BarbStretched =>
              \A p \in FgPixels :
                  /\ RawHue(p) = QMin(FgHues)
                        => ut.locals.hue_con[p] = <<0, 1>>
                  /\ RawHue(p) = QMax(FgHues)
                        => ut.locals.hue_con[p] = <<1, 1>>

\* the histogram edges of the stretched foreground hue
FgRange == HistRange(Masked(ut.locals.hue_con, ut.bg_mask))

\* C22: barb_thresh takes as reference the last bin whose count exceeds
\* the bound (0.2 x peak count if the peak bin's value is <= 0.4, 0.5 x
\* peak count otherwise, the peak being the first bin of maximal count)
\* and returns 2 x that bin's value / div, also when several bins hold the
\* same count.
C22_ReferenceIsLastOverBound ==
    BarbThresholded =>
        LET th == ut.locals.thresh
        IN  /\ th.peak_i = ArgMax(th.values)
            /\ th.over = {i \in 0 .. NBins - 1 :
                            10 * th.values[i + 1]
                               > (IF QLe(HistEdge(FgRange, th.peak_i),
                                         <<2, 5>>) THEN 2 ELSE 5)
                                    * th.values[th.peak_i + 1]}
            /\ th.ref_i = Max(th.over)
            /\ th.value = QDiv(<<2 * HistEdge(FgRange, Max(th.over))[1],
                                 HistEdge(FgRange, Max(th.over))[2]>>,
                               <<Div, 1>>)

\* the pixels at or below the threshold that remove_small_holes fills: the
\* edge-connected regions of such pixels that hold fewer than
\* (rows + columns) // 200 pixels
NotAbove ==
    {p \in DOMAIN ut.image.px :
        QLe(ut.locals.hue_con[p], ut.locals.thresh.value)}
FilledHole(p) ==
    /\ p \in NotAbove
    /\ Cardinality(Flood({p}, NotAbove, 1))
          < (ut.image.shape[1] + ut.image.shape[2]) \div 200

\* C23: barb_hue returns a mask that is 0 at every pixel where bg_mask is
\* 0, 1 at every foreground pixel whose stretched hue is above the
\* threshold and 2 at every foreground pixel whose stretched hue is at or
\* below the threshold, except the pixels filled as small holes of the
\* healthy mask.
C23_LabelsByThreshold ==
    BarbThresholded =>
        \A p \in DOMAIN ut.image.px :
            LET label == ut.locals.out.value.px[p]
            IN  /\ ut.bg_mask.px[p] = 0 => label = 0
                /\ (p \in FgPixels /\ p \notin NotAbove) => label = 1
                /\ (p \in FgPixels /\ p \in NotAbove /\ ~FilledHole(p))
                      => label = 2

C23_Witness ==
    /\ BarbThresholded
    /\ \E p \in DOMAIN ut.image.px : ut.bg_mask.px[p] = 0
    /\ \E p \in FgPixels : p \notin NotAbove
    /\ \E p \in FgPixels : p \in NotAbove

(***************************************************************************)
(* Properties of barb_hue on two hue clusters                              *)
(***************************************************************************)
\* the distance within which a hue counts as near a cluster centre
NearTol == <<3, 100>>

QAbs(a) == IF a[1] < 0 THEN <<0 - a[1], a[2]>> ELSE a
NearHue(h, centre) == QLe(QAbs(QSub(h, centre)), NearTol)

GreenCluster == {p \in FgPixels : NearHue(RawHue(p), <<3, 10>>)}
BrownCluster == {p \in FgPixels : NearHue(RawHue(p), <<1, 20>>)}

\* 70% of the foreground hues lie near 0.3 and 30% near 0.05
TwoClusters ==
    /\ FgPixels # {}
    /\ 10 * Cardinality(GreenCluster) = 7 * Cardinality(FgPixels)
    /\ 10 * Cardinality(BrownCluster) = 3 * Cardinality(FgPixels)

\* a hue on the stretched scale of the hue plane barb_hue stretches
PlaneHues ==
    {IF ut.bg_mask.px[p] = 1 THEN RawHue(p) ELSE <<0, 1>> :
        p \in DOMAIN ut.image.px}
StretchedHue(h) ==
    QDiv(QNorm(QSub(h, QMin(PlaneHues))),
         QNorm(QSub(QMax(PlaneHues), QMin(PlaneHues))))

\* C24 as stated: for a foreground in which 70% of the hues cluster near
\* 0.3 and 30% near 0.05, the threshold lies strictly between the two
\* stretched cluster centres, and barb_hue labels the 0.3 cluster healthy
\* (1) and the 0.05 cluster necrotic (2).
C24_ClustersSeparated ==
    (BarbDone /\ TwoClusters) =>
        /\ BarbThresholded
        /\ QLt(StretchedHue(<<1, 20>>), ut.locals.thresh.value)
        /\ QLt(ut.locals.thresh.value, StretchedHue(<<3, 10>>))
        /\ \A p \in GreenCluster : ut.locals.out.value.px[p] = 1
        /\ \A p \in BrownCluster : ut.locals.out.value.px[p] = 2

\* The separation of C24 when the whole 0.3 cluster has one hue, 0.3: the
\* cluster fills one histogram bin, whose count no other bin shares, so the
\* threshold lies strictly between the two stretched cluster centres and the
\* labels are 1 for the 0.3 cluster and 2 for the 0.05 cluster.
C24_SingleHueClusterSeparated ==
    (BarbDone /\ TwoClusters
              /\ \A p \in GreenCluster : RawHue(p) = <<3, 10>>) =>
        /\ BarbThresholded
        /\ QLt(StretchedHue(<<1, 20>>), ut.locals.thresh.value)
        /\ QLt(ut.locals.thresh.value, StretchedHue(<<3, 10>>))
        /\ \A p \in GreenCluster : ut.locals.out.value.px[p] = 1
        /\ \A p \in BrownCluster : ut.locals.out.value.px[p] = 2

SingleHueClusterReached ==
    /\ BarbThresholded
    /\ TwoClusters
    /\ \A p \in GreenCluster : RawHue(p) = <<3, 10>>
    /\ Cardinality({RawHue(p) : p \in BrownCluster}) > 1
    /\ \E p \in DOMAIN ut.bg_mask.px : ut.bg_mask.px[p] = 0
    /\ Cardinality(FgPixels) > 10
    /\ \A p \in BrownCluster : ut.locals.out.value.px[p] = 2


(***************************************************************************)
(* Properties of the stages' effect on the caller's arrays                 *)
(***************************************************************************)
StageReturned == ut.pc = "returned" /\ "heap" \in DOMAIN ut

\* C25: after multichannel_mask, canny_labs, paint_col, merge_masks or
\* barb_hue returns, the image and mask arrays the caller passed in hold
\* the values they held at the call.
C25_CallerGridsUnchanged ==
    StageReturned =>
        \A ref \in DOMAIN ut.before : ut.heap[ref] = ut.before[ref]

\* paint_col has returned a painted image that differs from the caller's
C25_Witness ==
    /\ StageReturned
    /\ ut.stage = "paint_col"
    /\ ut.out.kind = "return"
    /\ ut.out.value \notin DOMAIN ut.before
    /\ ut.heap[ut.out.value] # ut.before[1]

====
